---- MODULE Spec2Model ----
(***************************************************************************)
(* Incremental scoring core of the protein-folding scoring engine:         *)
(* NeighborGrid, State, and the score orchestrator (score_total,           *)
(* local_rescore) of app/server/state.py and app/server/score.py.          *)
(*                                                                         *)
(* Coordinates are integer lattice points (Angstrom).  Score values are    *)
(* fixed-point integers in units of 1/Unit (1e-4); a weight of 1.0 is the  *)
(* integer 1.                                                              *)
(***************************************************************************)
EXTENDS Integers, Sequences, FiniteSets, TLC

\* Number of operations applied to one State in a behaviour.
MaxOps == 3

\* NeighborGrid.voxel
Voxel == 4

\* The interaction radius passed to nearby_residues by the orchestrator.
Radius == 8

\* Fixed-point denominator of score values: one unit is 1e-4.
Unit == 100 * 100

VARIABLES state, result, ops, last, protocol, pending, full_calls,
          call, nudge, requests, store

\* The State, the last result and the history of the operations applied to it.
core == <<state, result, ops, last, protocol, pending, full_calls>>

\* call: the last call of a function or handler, with its arguments and outcome.
\* nudge: the position of suggest_nudge and what it saved.
\* requests: the positions of the mutate-then-score sequences, or of the
\* submissions, in flight.
\* store: the leaderboard files of the submissions directory and the level locks.
aux == <<call, nudge, requests, store>>

vars == <<state, result, ops, last, protocol, pending, full_calls,
          call, nudge, requests, store>>

----------------------------------------------------------------------------
(* Dictionaries and sums *)

EmptyDict == [k \in {} |-> 0]

Get(d, k, default) == IF k \in DOMAIN d THEN d[k] ELSE default

Put(d, k, v) == [x \in (DOMAIN d) \cup {k} |-> IF x = k THEN v ELSE d[x]]

Pop(d, k) == [x \in (DOMAIN d) \ {k} |-> d[x]]

RECURSIVE SumOver(_, _)
SumOver(S, f) ==
    IF S = {} THEN 0
    ELSE LET x == CHOOSE y \in S : TRUE
         IN f[x] + SumOver(S \ {x}, f)

Abs(n) == IF n < 0 THEN -n ELSE n

----------------------------------------------------------------------------
(* NeighborGrid *)

EmptyGrid == [vox2res |-> EmptyDict, res2vox |-> EmptyDict]

ToKey(p) == <<p[1] \div Voxel, p[2] \div Voxel, p[3] \div Voxel>>

AtomKeys(res) == {ToKey(res.atoms[i].xyz) : i \in 1..Len(res.atoms)}

IndexResidue(g, res) ==
    LET keys == AtomKeys(res)
    IN [vox2res |-> [k \in (DOMAIN g.vox2res) \cup keys |->
                        Get(g.vox2res, k, {}) \cup
                        (IF k \in keys THEN {res.id} ELSE {})],
        res2vox |-> Put(g.res2vox, res.id, Get(g.res2vox, res.id, {}) \cup keys)]

\* Variant: the residue -> cells record is kept.
ClearResidueKeepRecord(g, res_id) ==
    LET cells == Get(g.res2vox, res_id, {})
        hit(k) == k \in cells /\ g.vox2res[k] # {}
        bucket(k) == IF hit(k) THEN g.vox2res[k] \ {res_id} ELSE g.vox2res[k]
        kept == {k \in DOMAIN g.vox2res : ~(hit(k) /\ bucket(k) = {})}
    IN [vox2res |-> [k \in kept |-> bucket(k)],
        res2vox |-> g.res2vox]

\* Variant: a cell the residue leaves empty stays in vox2res.
ClearResidueKeepEmptyCells(g, res_id) ==
    LET cells == Get(g.res2vox, res_id, {})
        hit(k) == k \in cells /\ g.vox2res[k] # {}
        bucket(k) == IF hit(k) THEN g.vox2res[k] \ {res_id} ELSE g.vox2res[k]
    IN [vox2res |-> [k \in DOMAIN g.vox2res |-> bucket(k)],
        res2vox |-> Pop(g.res2vox, res_id)]

ClearResidue(g, res_id) ==
    LET cells == Get(g.res2vox, res_id, {})
        hit(k) == k \in cells /\ g.vox2res[k] # {}
        bucket(k) == IF hit(k) THEN g.vox2res[k] \ {res_id} ELSE g.vox2res[k]
        kept == {k \in DOMAIN g.vox2res : ~(hit(k) /\ bucket(k) = {})}
    IN [vox2res |-> [k \in kept |-> bucket(k)],
        res2vox |-> Pop(g.res2vox, res_id)]

CeilDiv(a, b) == (a + b - 1) \div b

\* Variant: the last cell of each axis is not visited.
OffsetsHalfOpen(rng) == (-rng)..(rng - 1)

\* range(-rng, rng + 1)
Offsets(rng) == (-rng)..rng

NearbyResidues(g, xyzs, radius) ==
    LET rng == CeilDiv(radius, Voxel)
        visited(k) == \E i \in 1..Len(xyzs) :
                         \A j \in 1..3 : (k[j] - ToKey(xyzs[i])[j]) \in Offsets(rng)
    IN UNION {g.vox2res[k] : k \in {c \in DOMAIN g.vox2res : visited(c)}}

----------------------------------------------------------------------------
(* State *)

ALL_TERMS == <<"clash", "rama", "rotamer", "ss", "compact", "hbond">>

TermNames == {ALL_TERMS[i] : i \in 1..Len(ALL_TERMS)}

PAIR_TERMS == {"clash", "compact", "hbond"}

SINGLE_TERMS == {"rama", "rotamer", "ss"}

SCORE_WEIGHTS == [t \in TermNames |-> 1]

ScoreStats == [term_eval_calls |-> [t \in TermNames |-> 0],
               full_passes |-> 0,
               incremental_passes |-> 0]

Atom(res_id, name, xyz) == [id |-> <<res_id, name>>, xyz |-> xyz]

Residue(res_id, name, atoms) == [id |-> res_id, name |-> name, atoms |-> atoms]

RECURSIVE IndexAll(_, _)
IndexAll(g, residues) ==
    IF residues = <<>> THEN g
    ELSE IndexAll(IndexResidue(g, Head(residues)), Tail(residues))

FromResidues(residues, weights) ==
    LET n == Len(residues)
        ids == {residues[i].id : i \in 1..n}
        lastOf(rid) == CHOOSE i \in 1..n :
                          /\ residues[i].id = rid
                          /\ \A j \in (i + 1)..n : residues[j].id # rid
        atomIds == UNION {{residues[i].atoms[a].id : a \in 1..Len(residues[i].atoms)}
                          : i \in 1..n}
        lastAtom(aid) ==
            LET holders == {i \in 1..n : \E a \in 1..Len(residues[i].atoms) :
                                            residues[i].atoms[a].id = aid}
                i == CHOOSE h \in holders : \A o \in holders : o <= h
                as == {a \in 1..Len(residues[i].atoms) : residues[i].atoms[a].id = aid}
                a == CHOOSE x \in as : \A o \in as : o <= x
            IN residues[i].atoms[a].xyz
    IN [residues |-> [rid \in ids |-> residues[lastOf(rid)]],
        atom_index |-> [aid \in atomIds |-> lastAtom(aid)],
        grid |-> IndexAll(EmptyGrid, residues),
        per_res_cache |-> EmptyDict,
        weights |-> weights,
        stats |-> ScoreStats]

MoveAtoms(atoms, new_xyz) ==
    [i \in 1..Len(atoms) |->
        IF atoms[i].id[2] \in DOMAIN new_xyz
        THEN [atoms[i] EXCEPT !.xyz = new_xyz[atoms[i].id[2]]]
        ELSE atoms[i]]

ReindexAtoms(atom_index, atoms, new_xyz) ==
    LET moved == {i \in 1..Len(atoms) : atoms[i].id[2] \in DOMAIN new_xyz}
        ids == {atoms[i].id : i \in moved}
    IN [aid \in (DOMAIN atom_index) \cup ids |->
           IF aid \in ids
           THEN LET as == {i \in moved : atoms[i].id = aid}
                    i == CHOOSE x \in as : \A o \in as : o <= x
                IN new_xyz[atoms[i].id[2]]
           ELSE atom_index[aid]]

\* Variant: the residue is re-indexed without being cleared first.
UpdateResidueCoordsNoClear(s, res_id, new_xyz) ==
    LET residue == s.residues[res_id]
        moved == [residue EXCEPT !.atoms = MoveAtoms(residue.atoms, new_xyz)]
    IN [s EXCEPT !.residues[res_id] = moved,
                 !.atom_index = ReindexAtoms(s.atom_index, residue.atoms, new_xyz),
                 !.grid = IndexResidue(s.grid, moved)]

\* Variant: the cache entry of the residue is dropped with the move.
UpdateResidueCoordsDroppingEntry(s, res_id, new_xyz) ==
    LET residue == s.residues[res_id]
        cleared == ClearResidue(s.grid, res_id)
        moved == [residue EXCEPT !.atoms = MoveAtoms(residue.atoms, new_xyz)]
    IN [s EXCEPT !.residues[res_id] = moved,
                 !.atom_index = ReindexAtoms(s.atom_index, residue.atoms, new_xyz),
                 !.grid = IndexResidue(cleared, moved),
                 !.per_res_cache = [rid \in (DOMAIN s.per_res_cache) \ {res_id} |->
                                       s.per_res_cache[rid]]]

UpdateResidueCoords(s, res_id, new_xyz) ==
    LET residue == s.residues[res_id]
        cleared == ClearResidue(s.grid, res_id)
        moved == [residue EXCEPT !.atoms = MoveAtoms(residue.atoms, new_xyz)]
    IN [s EXCEPT !.residues[res_id] = moved,
                 !.atom_index = ReindexAtoms(s.atom_index, residue.atoms, new_xyz),
                 !.grid = IndexResidue(cleared, moved)]

----------------------------------------------------------------------------
(* Score orchestrator *)

Dist2(a, b) ==
    (a[1] - b[1]) * (a[1] - b[1]) + (a[2] - b[2]) * (a[2] - b[2])
      + (a[3] - b[3]) * (a[3] - b[3])

RECURSIVE IsqrtIter(_, _, _)
IsqrtIter(n, lo, hi) ==
    IF lo >= hi THEN lo
    ELSE LET mid == (lo + hi + 1) \div 2
         IN IF mid * mid <= n THEN IsqrtIter(n, mid, hi)
                              ELSE IsqrtIter(n, lo, mid - 1)

\* floor(sqrt(n)) for 0 <= n <= Unit * Unit
Isqrt(n) == IsqrtIter(n, 0, Unit)

\* 1 / max(dist, 1e-3) in units of 1/Unit, from the squared distance
InvDist(d2) == IF d2 = 0 THEN 1000 * Unit ELSE Isqrt((Unit * Unit) \div d2)

PairTermStub(term, a, b) ==
    LET d2 == Dist2(a.atoms[1].xyz, b.atoms[1].xyz)
    IN CASE term = "clash" -> IF d2 = 0 THEN 1000 * 1000 * Unit ELSE Unit \div d2
         [] term = "compact" -> InvDist(d2)
         [] term = "hbond" -> InvDist(d2) \div 2
         [] OTHER -> 0

SingleTermStub(term, residue) ==
    LET rid == residue.id
    IN CASE term = "rama" -> (Unit \div 100) * ((rid % 10) - 5)
         [] term = "rotamer" -> (Unit \div 50) * ((rid % 7) - 3)
         [] term = "ss" -> ((3 * Unit) \div 200) * ((rid % 5) - 2)
         [] OTHER -> 0

\* 0.5 * contrib
HalfShare(contrib) == contrib \div 2

ComputePerResidueTerms(s, res_id, neighbor_ids) ==
    LET residue == s.residues[res_id]
        others == neighbor_ids \ {res_id}
    IN [term \in TermNames |->
          IF term \in SINGLE_TERMS THEN SingleTermStub(term, residue)
          ELSE IF term \in PAIR_TERMS
               THEN SumOver(others,
                      [nid \in others |->
                         HalfShare(PairTermStub(term, residue, s.residues[nid]))])
               ELSE 0]

\* The stats.bump calls made by one compute_per_residue_terms call.
TermEvalCalls(res_id, neighbor_ids) ==
    [term \in TermNames |->
       IF term \in SINGLE_TERMS THEN 1
       ELSE IF term \in PAIR_TERMS THEN Cardinality(neighbor_ids \ {res_id})
       ELSE 0]

\* Variant: the weights are ignored.
ComposeUnweightedTotal(terms, weights) ==
    SumOver(DOMAIN terms, terms)

ComposeWeightedTotal(terms, weights) ==
    SumOver(DOMAIN terms, [name \in DOMAIN terms |-> terms[name] * Get(weights, name, 1)])

PerResScore(terms, total, version) ==
    [terms |-> terms, total |-> total, version |-> version]

\* nearby_residues around the first atom of a residue, as both passes query it
Neighbours(s, rid) ==
    NearbyResidues(s.grid, <<s.residues[rid].atoms[1].xyz>>, Radius)

CacheEntry(s, rid, version) ==
    LET terms == ComputePerResidueTerms(s, rid, Neighbours(s, rid))
    IN PerResScore(terms, ComposeWeightedTotal(terms, s.weights), version)

\* term_eval_calls after recomputing every residue of ids
BumpAll(s, ids) ==
    [term \in DOMAIN s.stats.term_eval_calls |->
        s.stats.term_eval_calls[term]
          + SumOver(ids, [rid \in ids |-> TermEvalCalls(rid, Neighbours(s, rid))[term]])]

\* Variant: the full pass is not counted.
EnsureCacheForAllUncounted(s) ==
    LET residue_ids == DOMAIN s.residues
    IN [s EXCEPT !.stats.term_eval_calls = BumpAll(s, residue_ids),
                 !.per_res_cache =
                     [rid \in (DOMAIN s.per_res_cache) \cup residue_ids |->
                        IF rid \in residue_ids THEN CacheEntry(s, rid, 1)
                        ELSE s.per_res_cache[rid]]]

EnsureCacheForAll(s) ==
    LET residue_ids == DOMAIN s.residues
    IN [s EXCEPT !.stats.full_passes = @ + 1,
                 !.stats.term_eval_calls = BumpAll(s, residue_ids),
                 !.per_res_cache =
                     [rid \in (DOMAIN s.per_res_cache) \cup residue_ids |->
                        IF rid \in residue_ids THEN CacheEntry(s, rid, 1)
                        ELSE s.per_res_cache[rid]]]

\* Variant: every call makes the full pass.
ScoreTotalAlwaysFullPass(s) ==
    LET s1 == EnsureCacheForAll(s)
        cache == s1.per_res_cache
        ids == DOMAIN cache
    IN [state |-> s1,
        result |->
          [score |-> SumOver(ids, [rid \in ids |-> cache[rid].total]),
           terms |-> [term \in TermNames |->
                        SumOver(ids, [rid \in ids |->
                           Get(cache[rid].terms, term, 0) * Get(s1.weights, term, 1)])],
           per_residue |-> [rid \in ids |->
                              [total |-> cache[rid].total, terms |-> cache[rid].terms]]]]

\* Variant: the per-term totals are summed without the weights.
ScoreTotalUnweightedTerms(s) ==
    LET s1 == IF DOMAIN s.per_res_cache = {} THEN EnsureCacheForAll(s) ELSE s
        cache == s1.per_res_cache
        ids == DOMAIN cache
    IN [state |-> s1,
        result |->
          [score |-> SumOver(ids, [rid \in ids |-> cache[rid].total]),
           terms |-> [term \in TermNames |->
                        SumOver(ids, [rid \in ids |-> Get(cache[rid].terms, term, 0)])],
           per_residue |-> [rid \in ids |->
                              [total |-> cache[rid].total, terms |-> cache[rid].terms]]]]

ScoreTotal(s) ==
    LET s1 == IF DOMAIN s.per_res_cache = {} THEN EnsureCacheForAll(s) ELSE s
        cache == s1.per_res_cache
        ids == DOMAIN cache
    IN [state |-> s1,
        result |->
          [score |-> SumOver(ids, [rid \in ids |-> cache[rid].total]),
           terms |-> [term \in TermNames |->
                        SumOver(ids, [rid \in ids |->
                           Get(cache[rid].terms, term, 0) * Get(s1.weights, term, 1)])],
           per_residue |-> [rid \in ids |->
                              [total |-> cache[rid].total, terms |-> cache[rid].terms]]]]

RECURSIVE MovedPoints(_, _)
MovedPoints(s, ids) ==
    IF ids = {} THEN <<>>
    ELSE LET rid == CHOOSE r \in ids : TRUE
             atoms == s.residues[rid].atoms
         IN [i \in 1..Len(atoms) |-> atoms[i].xyz] \o MovedPoints(s, ids \ {rid})

\* The invalidation set of local_rescore
Todo(s, affected_res_ids) ==
    NearbyResidues(s.grid, MovedPoints(s, affected_res_ids), Radius)
      \cup affected_res_ids

\* Variant: a recomputed entry keeps the version it had.
LocalRescoreSameVersion(s, affected_res_ids) ==
    LET todo == Todo(s, affected_res_ids)
        version(rid) == IF rid \in DOMAIN s.per_res_cache
                        THEN s.per_res_cache[rid].version ELSE 1
        s2 == [s EXCEPT !.stats.incremental_passes = @ + 1,
                        !.stats.term_eval_calls = BumpAll(s, todo),
                        !.per_res_cache =
                            [rid \in (DOMAIN s.per_res_cache) \cup todo |->
                               IF rid \in todo THEN CacheEntry(s, rid, version(rid))
                               ELSE s.per_res_cache[rid]]]
    IN ScoreTotal(s2)

\* Variant: every residue is recomputed, whatever the invalidation set.
LocalRescoreEveryResidue(s, affected_res_ids) ==
    LET todo == DOMAIN s.residues
        version(rid) == IF rid \in DOMAIN s.per_res_cache
                        THEN s.per_res_cache[rid].version + 1 ELSE 1
        s2 == [s EXCEPT !.stats.incremental_passes = @ + 1,
                        !.stats.term_eval_calls = BumpAll(s, todo),
                        !.per_res_cache =
                            [rid \in (DOMAIN s.per_res_cache) \cup todo |->
                               IF rid \in todo THEN CacheEntry(s, rid, version(rid))
                               ELSE s.per_res_cache[rid]]]
    IN ScoreTotal(s2)

LocalRescore(s, affected_res_ids) ==
    LET todo == Todo(s, affected_res_ids)
        version(rid) == IF rid \in DOMAIN s.per_res_cache
                        THEN s.per_res_cache[rid].version + 1 ELSE 1
        s2 == [s EXCEPT !.stats.incremental_passes = @ + 1,
                        !.stats.term_eval_calls = BumpAll(s, todo),
                        !.per_res_cache =
                            [rid \in (DOMAIN s.per_res_cache) \cup todo |->
                               IF rid \in todo THEN CacheEntry(s, rid, version(rid))
                               ELSE s.per_res_cache[rid]]]
    IN ScoreTotal(s2)

\* Variant: the defaults are set whatever the weights map holds.
InitialiseWeightsOverwrite(s) == [s EXCEPT !.weights = SCORE_WEIGHTS]

InitialiseWeights(s) ==
    IF DOMAIN s.weights = {} THEN [s EXCEPT !.weights = SCORE_WEIGHTS] ELSE s

----------------------------------------------------------------------------
(* build_state *)

LowerToUpper ==
    [a |-> "A", b |-> "B", c |-> "C", d |-> "D", e |-> "E", f |-> "F", g |-> "G",
     h |-> "H", i |-> "I", j |-> "J", k |-> "K", l |-> "L", m |-> "M", n |-> "N",
     o |-> "O", p |-> "P", q |-> "Q", r |-> "R", s |-> "S", t |-> "T", u |-> "U",
     v |-> "V", w |-> "W", x |-> "X", y |-> "Y", z |-> "Z"]

Upper(code) == Get(LowerToUpper, code, code)

ONE_LETTER_TO_THREE ==
    [A |-> "ALA", R |-> "ARG", N |-> "ASN", D |-> "ASP", C |-> "CYS", Q |-> "GLN",
     E |-> "GLU", G |-> "GLY", H |-> "HIS", I |-> "ILE", L |-> "LEU", K |-> "LYS",
     M |-> "MET", F |-> "PHE", P |-> "PRO", S |-> "SER", T |-> "THR", W |-> "TRP",
     Y |-> "TYR", V |-> "VAL"]

\* Variant: the letter is looked up as written.
BuildResiduesCaseSensitive(sequence, coords) ==
    [idx \in 1..Len(sequence) |->
        LET res_idx == idx - 1
            start == res_idx * 3
        IN Residue(res_idx, Get(ONE_LETTER_TO_THREE, sequence[idx], "UNK"),
                   <<Atom(res_idx, "N", coords[start + 1]),
                     Atom(res_idx, "CA", coords[start + 2]),
                     Atom(res_idx, "C", coords[start + 3])>>)]

BuildResidues(sequence, coords) ==
    [idx \in 1..Len(sequence) |->
        LET res_idx == idx - 1
            start == res_idx * 3
        IN Residue(res_idx, Get(ONE_LETTER_TO_THREE, Upper(sequence[idx]), "UNK"),
                   <<Atom(res_idx, "N", coords[start + 1]),
                     Atom(res_idx, "CA", coords[start + 2]),
                     Atom(res_idx, "C", coords[start + 3])>>)]

BuildState(sequence, coords) ==
    InitialiseWeights(FromResidues(BuildResidues(sequence, coords), SCORE_WEIGHTS))

\* build_state and the way it ends: the slice coords[start : start + 3] of a
\* coordinate array that is too short does not unpack into three positions.
BuildStateOutcome(sequence, coords) ==
    IF \E res_idx \in 0..(Len(sequence) - 1) : Len(coords) < res_idx * 3 + 3
    THEN [status |-> "ValueError", state |-> FromResidues(<<>>, EmptyDict)]
    ELSE [status |-> "ok", state |-> BuildState(sequence, coords)]

----------------------------------------------------------------------------
(* Inputs *)

\* Sequences with their N/CA/C coordinate arrays.
Structures ==
    {[sequence |-> <<>>, coords |-> <<>>],
     [sequence |-> <<"G">>,
      coords |-> <<<<0, 0, 0>>, <<1, 0, 0>>, <<2, 0, 0>>>>],
     [sequence |-> <<"A", "g">>,
      coords |-> <<<<0, 0, 0>>, <<1, 0, 0>>, <<2, 0, 0>>,
                   <<20, 0, 0>>, <<16, 0, 0>>, <<11, 0, 0>>>>],
     [sequence |-> <<"A", "G", "?">>,
      coords |-> <<<<0, 0, 0>>, <<1, 0, 0>>, <<2, 0, 0>>,
                   <<4, 0, 0>>, <<5, 0, 0>>, <<6, 0, 0>>,
                   <<-9, -13, 0>>, <<-8, -13, 0>>, <<-7, -13, 0>>>>]}

\* Weight maps a caller hands to State.from_residues: none, the defaults,
\* an override naming one term.
WeightChoices == {EmptyDict, SCORE_WEIGHTS, [t \in {"clash"} |-> 2]}

\* new_xyz arguments of update_residue_coords.
MovePayloads ==
    {[N |-> <<12, 0, 0>>, CA |-> <<13, 0, 0>>, C |-> <<14, 0, 0>>],
     [N |-> <<40, 0, 0>>, CA |-> <<41, 0, 0>>, C |-> <<42, 0, 0>>],
     [N |-> <<-1, -9, 3>>],
     [CA |-> <<8, 0, 0>>, O |-> <<0, 0, 0>>]}

\* The clamp of _pair_term_stub at 1e-3 is out of the fixed-point range:
\* first atoms of distinct residues are kept apart.
FirstAtomsApart(s) ==
    \A a, b \in DOMAIN s.residues :
        a # b => s.residues[a].atoms[1].xyz # s.residues[b].atoms[1].xyz

TotalCalls(s) ==
    SumOver(DOMAIN s.stats.term_eval_calls, s.stats.term_eval_calls)

NoResult == [score |-> 0, terms |-> EmptyDict, per_residue |-> EmptyDict]

NoOp == [op |-> "from_residues", rid |-> -1, new_xyz |-> EmptyDict,
         affected |-> {}, todo |-> {}, calls |-> 0, full |-> FALSE,
         filled |-> FALSE]

NoCall == [fn |-> "none", args |-> <<>>, status |-> "ok", out |-> 0]

NoNudge == [pc |-> "idle", baseline_cache |-> EmptyDict, res_idx |-> -1,
            revert_coords |-> EmptyDict, entry |-> EmptyDict]

NoRequests == <<>>

\* No leaderboard file written, no lock created
NoStore == [files |-> EmptyDict, locks |-> EmptyDict]

----------------------------------------------------------------------------
(* Operations on one State *)

Init ==
    /\ state \in {FromResidues(BuildResidues(st.sequence, st.coords), w) :
                    st \in Structures, w \in WeightChoices}
    /\ result = NoResult
    /\ ops = 0
    /\ last = NoOp
    /\ protocol = "fresh"
    /\ pending = {}
    /\ full_calls = 0
    /\ call = NoCall
    /\ nudge = NoNudge
    /\ requests = NoRequests
    /\ store = NoStore

DoUpdateResidueCoords(res_id, new_xyz) ==
    LET s1 == UpdateResidueCoords(state, res_id, new_xyz)
        changed == s1.residues[res_id] # state.residues[res_id]
    IN /\ ops < MaxOps
       /\ FirstAtomsApart(s1)
       /\ state' = s1
       /\ ops' = ops + 1
       /\ last' = [NoOp EXCEPT !.op = "update_residue_coords", !.rid = res_id,
                               !.new_xyz = new_xyz]
       /\ protocol' = IF protocol = "fresh" THEN "broken"
                      ELSE IF protocol = "synced" /\ changed THEN "dirty"
                      ELSE protocol
       /\ pending' = IF changed THEN pending \cup {res_id} ELSE pending
       /\ UNCHANGED <<result, full_calls>>

DoScoreTotal ==
    LET out == ScoreTotal(state)
    IN /\ ops < MaxOps
       /\ state' = out.state
       /\ result' = out.result
       /\ ops' = ops + 1
       /\ last' = [NoOp EXCEPT !.op = "score_total",
                               !.calls = TotalCalls(out.state) - TotalCalls(state),
                               !.full = (out.state.stats.full_passes
                                           # state.stats.full_passes)]
       /\ protocol' = IF protocol \in {"fresh", "synced"} THEN "synced" ELSE "broken"
       /\ full_calls' = IF last'.full THEN last'.calls ELSE full_calls
       /\ UNCHANGED pending

DoLocalRescore(affected_res_ids) ==
    LET out == LocalRescore(state, affected_res_ids)
    IN /\ ops < MaxOps
       /\ state' = out.state
       /\ result' = out.result
       /\ ops' = ops + 1
       /\ last' = [NoOp EXCEPT !.op = "local_rescore",
                               !.affected = affected_res_ids,
                               !.todo = Todo(state, affected_res_ids),
                               !.calls = TotalCalls(out.state) - TotalCalls(state),
                               !.full = (out.state.stats.full_passes
                                           # state.stats.full_passes)]
       /\ protocol' = IF protocol \in {"synced", "dirty"} /\ affected_res_ids = pending
                      THEN "synced" ELSE "broken"
       /\ pending' = pending \ affected_res_ids
       /\ full_calls' = IF last'.full THEN last'.calls ELSE full_calls

DoInitialiseWeights ==
    /\ ops < MaxOps
    /\ state' = InitialiseWeights(state)
    /\ ops' = ops + 1
    /\ last' = [NoOp EXCEPT !.op = "initialise_weights",
                            !.filled = (state.weights = EmptyDict)]
    /\ UNCHANGED <<result, protocol, pending, full_calls>>

Update ==
    /\ \E res_id \in DOMAIN state.residues : \E new_xyz \in MovePayloads :
          DoUpdateResidueCoords(res_id, new_xyz)
    /\ UNCHANGED aux

Score == DoScoreTotal /\ UNCHANGED aux

Rescore ==
    /\ \E affected_res_ids \in SUBSET (DOMAIN state.residues) :
          DoLocalRescore(affected_res_ids)
    /\ UNCHANGED aux

Weights == DoInitialiseWeights /\ UNCHANGED aux

Next == Update \/ Score \/ Rescore \/ Weights

Spec == Init /\ [][Next]_vars

----------------------------------------------------------------------------
(* Raw NeighborGrid calls on the State's grid *)

DoIndexResidue(res) ==
    /\ ops < MaxOps
    /\ state' = [state EXCEPT !.grid = IndexResidue(state.grid, res)]
    /\ ops' = ops + 1
    /\ last' = [NoOp EXCEPT !.op = "index_residue", !.rid = res.id]
    /\ UNCHANGED <<result, protocol, pending, full_calls>>

DoClearResidue(res_id) ==
    /\ ops < MaxOps
    /\ state' = [state EXCEPT !.grid = ClearResidue(state.grid, res_id)]
    /\ ops' = ops + 1
    /\ last' = [NoOp EXCEPT !.op = "clear_residue", !.rid = res_id]
    /\ UNCHANGED <<result, protocol, pending, full_calls>>

\* Residue ids a caller may name, one of them never built.
CallerIds == (DOMAIN state.residues) \cup {7}

\* index_residue is handed the State's residue or a detached, moved copy of it.
Index ==
    /\ \E res_id \in DOMAIN state.residues : \E new_xyz \in MovePayloads \cup {EmptyDict} :
          DoIndexResidue([state.residues[res_id] EXCEPT
                            !.atoms = MoveAtoms(@, new_xyz)])
    /\ UNCHANGED aux

Clear == (\E res_id \in CallerIds : DoClearResidue(res_id)) /\ UNCHANGED aux

NextGrid == Update \/ Index \/ Clear

SpecGrid == Init /\ [][NextGrid]_vars

----------------------------------------------------------------------------
(* Properties *)

ResidueIds == DOMAIN state.residues

Cache == state.per_res_cache

\* The residues of the State as a list, in id order (ids are 0..n-1).
ClonedResidues == [i \in 1..Cardinality(ResidueIds) |-> state.residues[i - 1]]

\* score_total on a fresh State built from the current coordinates
FreshScore == ScoreTotal(FromResidues(ClonedResidues, state.weights)).result.score

\* Far above the 1e-6 of the claim and above the fixed-point rounding.
Tolerance == Unit \div 100

\* C1: after score_total filled the cache and every mutation was followed by
\* local_rescore on the residues that changed, the score local_rescore returns
\* equals the score of score_total on a fresh State with the same coordinates.
C1_IncrementalEqualsFresh ==
    (last.op = "local_rescore" /\ protocol = "synced")
        => Abs(result.score - FreshScore) <= Tolerance

\* C2: after update_residue_coords on one residue and local_rescore on it,
\* every cache entry equals what compute_per_residue_terms yields from the
\* current coordinates and grid neighbours.
C2_CacheReflectsCurrentCoords ==
    (last.op = "local_rescore" /\ protocol = "synced" /\ Cardinality(last.affected) = 1)
        => \A rid \in DOMAIN Cache :
              Cache[rid].terms = ComputePerResidueTerms(state, rid, Neighbours(state, rid))

\* C3: after any scoring call the cache has an entry for every residue and the
\* returned per_residue breakdown covers every residue.
C3_CacheCoversEveryResidue ==
    last.op \in {"score_total", "local_rescore"}
        => /\ DOMAIN Cache = ResidueIds
           /\ DOMAIN result.per_residue = ResidueIds

\* C4: every cached total is the sum of the entry's terms, each times the
\* State's weight for the term, a missing weight counting as 1.
C4_TotalIsWeightedSum ==
    \A rid \in DOMAIN Cache :
        Cache[rid].total =
            SumOver(DOMAIN Cache[rid].terms,
                    [t \in DOMAIN Cache[rid].terms |->
                        Cache[rid].terms[t]
                          * (IF t \in DOMAIN state.weights THEN state.weights[t] ELSE 1)])

C4_Witness ==
    /\ DOMAIN Cache # {}
    /\ \E rid \in DOMAIN Cache : Cache[rid].terms["clash"] > 0
    /\ "clash" \in DOMAIN state.weights /\ state.weights["clash"] = 2
    /\ last.op = "local_rescore"

\* The cells of vox2res that hold a residue
CellsOf(rid) == {c \in DOMAIN state.grid.vox2res : rid \in state.grid.vox2res[c]}

AllAtoms(rid) == {state.residues[rid].atoms[i] : i \in 1..Len(state.residues[rid].atoms)}

\* C5: the two maps of the NeighborGrid agree: r is in vox2res[c] exactly when
\* c is in res2vox[r].
C5_GridMapsConsistent ==
    /\ \A c \in DOMAIN state.grid.vox2res : \A rid \in state.grid.vox2res[c] :
          rid \in DOMAIN state.grid.res2vox /\ c \in state.grid.res2vox[rid]
    /\ \A rid \in DOMAIN state.grid.res2vox : \A c \in state.grid.res2vox[rid] :
          c \in DOMAIN state.grid.vox2res /\ rid \in state.grid.vox2res[c]

\* A residue was cleared after the grid held it in cells it shared and cells
\* it had alone, while another residue is registered in cells it has no atom in.
C5_Witness ==
    /\ last.op = "clear_residue"
    /\ last.rid \in ResidueIds
    /\ last.rid \notin DOMAIN state.grid.res2vox
    /\ \E rid \in DOMAIN state.grid.res2vox :
          state.grid.res2vox[rid] # AtomKeys(state.residues[rid])

\* Query points (negative coordinates, voxel boundaries) and radii.
QueryPoints ==
    {<<0, 0, 0>>, <<3, 0, 0>>, <<4, 0, 0>>, <<-1, -1, 3>>, <<-8, -8, -8>>, <<20, 0, 0>>}

\* Lists of query points: none, one, several.
QueryLists ==
    {<<p>> : p \in QueryPoints}
      \cup {<<>>, <<<<3, 0, 0>>, <<-1, -1, 3>>>>, <<<<20, 0, 0>>, <<-8, -8, -8>>, <<4, 0, 0>>>>}

QueryRadii == {0, 1, 5, Radius}

WithinRadius(rid, points, radius) ==
    \E i \in 1..Len(points) : \E atom \in AllAtoms(rid) :
        Dist2(atom.xyz, points[i]) <= radius * radius

\* C6: nearby_residues returns every residue with an atom within the radius of
\* a query point.
C6_NoFalseNegatives ==
    \A points \in QueryLists : \A radius \in QueryRadii :
        \A rid \in ResidueIds :
            WithinRadius(rid, points, radius)
                => rid \in NearbyResidues(state.grid, points, radius)

\* An atom at negative coordinates lies at exactly the radius from a query
\* point, two cells away, and its residue is returned.
C6_Witness ==
    \E rid \in ResidueIds : \E atom \in AllAtoms(rid) :
        /\ atom.xyz = <<-1, -9, 3>>
        /\ Dist2(atom.xyz, <<-1, -1, 3>>) = Radius * Radius
        /\ ToKey(<<-1, -1, 3>>)[2] - ToKey(atom.xyz)[2] = 2
        /\ rid \in NearbyResidues(state.grid, <<<<-1, -1, 3>>>>, Radius)

\* C7: after update_residue_coords (a) the named atoms have the new positions,
\* (b) atom_index agrees with every Atom record, (c) the cells registered for
\* each residue are exactly the cells of its atoms.
C7_UpdateKeepsStateInSync ==
    last.op = "update_residue_coords" =>
        /\ \A atom \in AllAtoms(last.rid) :
              atom.id[2] \in DOMAIN last.new_xyz => atom.xyz = last.new_xyz[atom.id[2]]
        /\ \A rid \in ResidueIds : \A atom \in AllAtoms(rid) :
              atom.id \in DOMAIN state.atom_index /\ state.atom_index[atom.id] = atom.xyz
        /\ \A rid \in ResidueIds :
              /\ rid \in DOMAIN state.grid.res2vox
              /\ state.grid.res2vox[rid] = AtomKeys(state.residues[rid])
              /\ CellsOf(rid) = AtomKeys(state.residues[rid])

\* A third update in a row moved a residue out of the cell it was in.
C7_Witness ==
    /\ last.op = "update_residue_coords"
    /\ ops = 3
    /\ state.stats.full_passes = 0 /\ state.stats.incremental_passes = 0
    /\ state.residues[last.rid].atoms[1].xyz = <<40, 0, 0>>
    /\ state.grid.res2vox[last.rid] = {<<10, 0, 0>>}
    /\ \E rid \in ResidueIds : state.residues[rid].atoms[1].xyz = <<-1, -9, 3>>

\* No scoring call has been made on the State.
Unscored == state.stats.full_passes = 0 /\ state.stats.incremental_passes = 0

\* C8: a State just built has an empty cache and full_passes = 0; the first
\* score_total call on it leaves one cache entry per residue, full_passes = 1
\* and a per_residue breakdown with one entry per residue.
C8_FirstScoreTotalFillsCache ==
    /\ (DOMAIN state.per_res_cache = {} /\ state.stats.full_passes = 0)
    /\ [][(Unscored /\ last'.op = "score_total")
            => /\ DOMAIN state.per_res_cache = {}
               /\ DOMAIN state'.per_res_cache = DOMAIN state'.residues
               /\ state'.stats.full_passes = 1
               /\ DOMAIN result'.per_residue = DOMAIN state'.residues]_vars

\* The first call on a State of three residues, made after a coordinate update.
C8_Witness ==
    /\ last.op = "score_total"
    /\ ops = 2
    /\ state.stats.incremental_passes = 0
    /\ state.stats.full_passes = 1
    /\ Cardinality(ResidueIds) = 3
    /\ DOMAIN Cache = ResidueIds
    /\ DOMAIN result.per_residue = ResidueIds
    /\ state.residues[0].atoms[1].xyz = <<40, 0, 0>>

\* The term-evaluation calls a full pass over the current coordinates makes.
FullPassCalls == TotalCalls(EnsureCacheForAll(state)) - TotalCalls(state)

\* A local_rescore on a State of more than one residue that had made its full
\* pass, with an invalidation set that does not cover the structure.
PartialRescore ==
    /\ last.op = "local_rescore"
    /\ Cardinality(ResidueIds) > 1
    /\ last.todo # ResidueIds
    /\ state.stats.full_passes > 0
    /\ ~last.full

\* C9 as stated: such a local_rescore makes strictly fewer term-evaluation
\* calls than the State's full pass made.
C9_FewerCallsThanTheFullPassMade ==
    PartialRescore => last.calls < full_calls

\* C9 (amended): such a local_rescore makes strictly fewer term-evaluation
\* calls than a full pass over the State's current coordinates makes.
C9_FewerCallsThanAFullPassNow ==
    PartialRescore => last.calls < FullPassCalls

\* A rescore of two residues out of three that costs as much as the full pass
\* the State made before the move.
C9_Witness ==
    /\ PartialRescore
    /\ Cardinality(last.todo) = 2
    /\ Cardinality(ResidueIds) = 3
    /\ last.calls >= full_calls
    /\ last.calls < FullPassCalls

\* The residue pairs of which at least one cache entry holds a half-share.
SharedPairs ==
    {pair \in ResidueIds \X ResidueIds :
        /\ pair[1] # pair[2]
        /\ \/ pair[2] \in Neighbours(state, pair[1])
           \/ pair[1] \in Neighbours(state, pair[2])}

\* C10: after a full pass, a's entry includes the half-share of a pair exactly
\* when b's entry does, and the shares of each pairwise term add up to the
\* pair values.
C10_PairSharesSymmetric ==
    last.full =>
        /\ \A a \in ResidueIds : \A b \in ResidueIds \ {a} :
              (b \in Neighbours(state, a)) <=> (a \in Neighbours(state, b))
        /\ \A term \in PAIR_TERMS :
              SumOver(DOMAIN Cache, [rid \in DOMAIN Cache |-> Cache[rid].terms[term]])
                = SumOver(SharedPairs,
                     [pair \in SharedPairs |->
                        HalfShare(PairTermStub(term, state.residues[pair[1]],
                                               state.residues[pair[2]]))])

\* C12: initialise_weights sets the weights to SCORE_WEIGHTS on a State whose
\* weights map is empty, changes nothing on a State whose weights map is not
\* empty (an override naming one term included), and a second call leaves
\* the weights of the first.
C12_InitialiseWeightsIdempotent ==
    [][last'.op = "initialise_weights" =>
          /\ (DOMAIN state.weights = {} => state'.weights = SCORE_WEIGHTS)
          /\ (DOMAIN state.weights # {} => state' = state)
          /\ InitialiseWeights(state').weights = state'.weights]_vars

\* The call found an override naming one term on a State already scored.
C12_Witness ==
    /\ last.op = "initialise_weights"
    /\ DOMAIN state.weights = {"clash"}
    /\ state.weights["clash"] = 2
    /\ DOMAIN Cache # {}

----------------------------------------------------------------------------
(* Calls of build_state and of the energy term evaluators *)

\* Longest sequence handed to build_state.
MaxSeqLen == 3

\* One-letter codes: in the table, in lower case, not in the table.
Letters == {"A", "g", "?", "w"}

SequenceInputs == UNION {[1..k -> Letters] : k \in 0..MaxSeqLen}

BackboneA ==
    <<<<0, 0, 0>>, <<1, 0, 0>>, <<2, 0, 0>>, <<4, 0, 0>>, <<5, 0, 0>>, <<6, 0, 0>>,
      <<-9, -13, 0>>, <<-8, -13, 0>>, <<-7, -13, 0>>, <<3, 3, 3>>, <<7, 1, 0>>,
      <<8, 1, 0>>, <<9, 1, 0>>, <<11, 2, -5>>, <<12, 2, -5>>>>

BackboneB ==
    <<<<-1, -1, -1>>, <<-4, -4, -4>>, <<-5, 0, 3>>, <<-1, -1, -1>>, <<0, 4, 8>>,
      <<1, 5, 9>>, <<2, 6, 10>>, <<-17, 0, 0>>, <<-18, 0, 0>>>>

\* Coordinate arrays: empty, exact, with entries to spare, too short.
CoordInputs ==
    {SubSeq(BackboneA, 1, k) : k \in {0, 2, 3, 6, 9, 10, 15}}
      \cup {SubSeq(BackboneB, 1, k) : k \in {3, 9}}

\* get_state falls back to an empty State with the default weights.
InitCalls ==
    /\ Init
    /\ state = FromResidues(<<>>, SCORE_WEIGHTS)

CallBuildState(sequence, coords) ==
    LET out == BuildStateOutcome(sequence, coords)
    IN /\ call.fn = "none"
       /\ call' = [fn |-> "build_state", args |-> <<sequence, coords>>,
                   status |-> out.status, out |-> 0]
       /\ state' = IF out.status = "ok" THEN out.state ELSE state
       /\ last' = [NoOp EXCEPT !.op = "build_state"]
       /\ UNCHANGED <<result, ops, protocol, pending, full_calls, nudge, requests, store>>

Build == \E sequence \in SequenceInputs : \E coords \in CoordInputs :
             CallBuildState(sequence, coords)

----------------------------------------------------------------------------
(* Energy term evaluators of scoring.py.  Positions handed to the evaluators  *)
(* are in tenths of an Angstrom; radii, softness, cutoff and distances are in *)
(* thousandths; clash energies are in 1e-6 square Angstrom.                   *)

VAN_DER_WAALS_RADII == [C |-> 1700, N |-> 1550, O |-> 1520, S |-> 1800, H |-> 1100]

\* dx * dx + dy * dy + dz * dz of two atom payloads, in square thousandths
DistSq(a, b) ==
    ((b.x - a.x) * (b.x - a.x) + (b.y - a.y) * (b.y - a.y)
       + (b.z - a.z) * (b.z - a.z)) * Unit

\* Variant: the overlap is squared whatever its sign.
ClashEnergyAnyOverlap(atoms, softness, cutoff) ==
    LET radii == [i \in 1..Len(atoms) |-> VAN_DER_WAALS_RADII[Upper(atoms[i].element)]]
        pairs == {p \in (1..Len(atoms)) \X (1..Len(atoms)) : p[1] < p[2]}
        term(i, j) ==
            LET dist_sq == DistSq(atoms[i], atoms[j])
            IN IF dist_sq >= cutoff * cutoff THEN 0
               ELSE LET distance == Isqrt(dist_sq)
                        target == radii[i] + radii[j] + softness
                        overlap == target - distance
                    IN overlap * overlap
    IN SumOver(pairs, [p \in pairs |-> term(p[1], p[2])])

ClashEnergy(atoms, softness, cutoff) ==
    LET radii == [i \in 1..Len(atoms) |-> VAN_DER_WAALS_RADII[Upper(atoms[i].element)]]
        pairs == {p \in (1..Len(atoms)) \X (1..Len(atoms)) : p[1] < p[2]}
        term(i, j) ==
            LET dist_sq == DistSq(atoms[i], atoms[j])
            IN IF dist_sq >= cutoff * cutoff THEN 0
               ELSE LET distance == Isqrt(dist_sq)
                        target == radii[i] + radii[j] + softness
                        overlap == target - distance
                    IN IF overlap > 0 THEN overlap * overlap ELSE 0
    IN SumOver(pairs, [p \in pairs |-> term(p[1], p[2])])

\* clash_energy and the way it ends: an element without a radius is an error.
ClashEnergyOutcome(atoms, softness, cutoff) ==
    IF \E i \in 1..Len(atoms) : Upper(atoms[i].element) \notin DOMAIN VAN_DER_WAALS_RADII
    THEN [status |-> "ValueError", out |-> 0]
    ELSE [status |-> "ok", out |-> ClashEnergy(atoms, softness, cutoff)]

AtomPayload(element, xyz) == [element |-> element, x |-> xyz[1], y |-> xyz[2], z |-> xyz[3]]

\* Element symbols: with a radius, in lower case, without a radius.
ClashElements == {"C", "N", "O", "S", "H", "c", "X"}

\* Positions of the second atom, the first being at the origin: on it, inside
\* every sum of radii, on the sums of radii plus softness, on the cutoff.
ClashPositions ==
    {<<0, 0, 0>>, <<1, 0, 0>>, <<10, 0, 0>>, <<24, 0, 0>>, <<0, -25, 0>>,
     <<20, 20, 0>>, <<30, 0, 0>>, <<36, 0, 0>>, <<0, 0, 37>>, <<38, 0, 0>>,
     <<-30, 40, 0>>, <<79, 0, 0>>, <<80, 0, 0>>, <<48, 0, -64>>, <<90, 0, 0>>}

\* softness and cutoff: the defaults, no softness, a cutoff inside the overlap.
ClashSettings ==
    {[softness |-> 200, cutoff |-> 8000], [softness |-> 0, cutoff |-> 8000],
     [softness |-> 5000, cutoff |-> 3000], [softness |-> 200, cutoff |-> 3000]}

ClashAtomLists ==
    {<<AtomPayload(e1, <<0, 0, 0>>), AtomPayload(e2, p)>> :
        e1 \in ClashElements, e2 \in ClashElements, p \in ClashPositions}
      \cup {<<>>, <<AtomPayload("C", <<0, 0, 0>>)>>,
            <<AtomPayload("C", <<0, 0, 0>>), AtomPayload("N", <<10, 0, 0>>),
              AtomPayload("O", <<20, 20, 0>>)>>}

CallClashEnergy(atoms, settings) ==
    LET out == ClashEnergyOutcome(atoms, settings.softness, settings.cutoff)
    IN /\ call.fn = "none"
       /\ call' = [fn |-> "clash_energy", args |-> <<atoms, settings>>,
                   status |-> out.status, out |-> out.out]
       /\ UNCHANGED <<core, nudge, requests, store>>

Clash == \E atoms \in ClashAtomLists : \E settings \in ClashSettings :
             CallClashEnergy(atoms, settings)

\* ALPHA_RG = 0.3, in tenths
ALPHA_RG == 3

RECURSIVE IcbrtIter(_, _, _)
IcbrtIter(n, lo, hi) ==
    IF lo >= hi THEN lo
    ELSE LET mid == (lo + hi + 1) \div 2
         IN IF mid * mid * mid <= n THEN IcbrtIter(n, mid, hi)
                                    ELSE IcbrtIter(n, lo, mid - 1)

\* count ** (1.0 / 3.0) in hundredths, for count <= 1000
CubeRoot(count) == IcbrtIter(count * Unit * 100, 0, 1000)

\* The radius of gyration in hundredths of an Angstrom, of positions in tenths.
RadiusOfGyration(positions) ==
    LET count == Len(positions)
        idx == 1..count
        sum(k) == SumOver(idx, [i \in idx |-> positions[i][k] * 10])
        centre == <<sum(1) \div count, sum(2) \div count, sum(3) \div count>>
        sq(i, k) == (positions[i][k] * 10 - centre[k]) * (positions[i][k] * 10 - centre[k])
        moment == SumOver(idx, [i \in idx |-> sq(i, 1) + sq(i, 2) + sq(i, 3)])
    IN Isqrt(moment \div count)

\* Variant: one point is handled as no point is.
CompactnessPenaltyOfSeveral(coords, alpha) ==
    LET count == Len(coords)
    IN IF count <= 1 THEN 0
       ELSE LET rg == RadiusOfGyration(coords)
                target == (22 * CubeRoot(count)) \div 10
                delta == rg - target
            IN (alpha * (delta * delta)) \div 10

\* compactness_penalty in units of 1/Unit, alpha in tenths
CompactnessPenalty(coords, alpha) ==
    LET count == Len(coords)
    IN IF count = 0 THEN 0
       ELSE LET rg == IF count = 1 THEN 0 ELSE RadiusOfGyration(coords)
                target == (22 * CubeRoot(count)) \div 10
                delta == rg - target
            IN (alpha * (delta * delta)) \div 10

\* Most points in one list handed to compactness_penalty.
MaxPoints == 3

CompactPoints == {<<0, 0, 0>>, <<22, 0, 0>>, <<-35, 0, 0>>, <<0, 35, -4>>, <<60, 60, 60>>}

CompactInputs == UNION {[1..k -> CompactPoints] : k \in 0..MaxPoints}

\* alpha: the default and 1.0
CompactAlphas == {ALPHA_RG, 10}

CallCompactnessPenalty(coords, alpha) ==
    /\ call.fn = "none"
    /\ call' = [fn |-> "compactness_penalty", args |-> <<coords, alpha>>,
                status |-> "ok", out |-> CompactnessPenalty(coords, alpha)]
    /\ UNCHANGED <<core, nudge, requests, store>>

Compact == \E coords \in CompactInputs : \E alpha \in CompactAlphas :
               CallCompactnessPenalty(coords, alpha)

\* ALPHA_ROT = 0.02, in units of 1/Unit
ALPHA_ROT == 200

RESIDUE_CHI_COUNT ==
    [ALA |-> 0, GLY |-> 0, SER |-> 1, CYS |-> 1, VAL |-> 1, THR |-> 1, ASN |-> 2,
     ASP |-> 2, LEU |-> 2, ILE |-> 2, HIS |-> 2, PHE |-> 2, TYR |-> 2, TRP |-> 2,
     GLN |-> 3, GLU |-> 3, MET |-> 3, LYS |-> 4, ARG |-> 4, PRO |-> 0]

\* The bins of _generate_rotamer_bins(chi_count), each a tuple of centres with
\* a tuple of widths of 35 degrees.
GenerateRotamerBins(chi_count) ==
    IF chi_count <= 0 THEN {<<>>}
    ELSE {<<centres, [i \in 1..chi_count |-> 35]>> :
             centres \in [1..chi_count -> {-60, 60, 180}]}

\* ROTAMER_LIBRARY.get(key), an empty set standing for None
ROTAMER_LIBRARY(key) ==
    IF key \in DOMAIN RESIDUE_CHI_COUNT THEN GenerateRotamerBins(RESIDUE_CHI_COUNT[key])
    ELSE IF key = "DEFAULT" THEN GenerateRotamerBins(1)
    ELSE {}

\* Strings are handed over as sequences of characters.
RECURSIVE Join(_)
Join(chars) == IF chars = <<>> THEN "" ELSE Head(chars) \o Join(Tail(chars))

RECURSIVE Strip(_)
Strip(chars) ==
    IF chars = <<>> THEN chars
    ELSE IF Head(chars) = " " THEN Strip(Tail(chars))
    ELSE IF chars[Len(chars)] = " " THEN Strip(SubSeq(chars, 1, Len(chars) - 1))
    ELSE chars

NormaliseResidueKey(residue) ==
    LET stripped == Strip(residue)
        upper == [i \in 1..Len(stripped) |-> Upper(stripped[i])]
    IN IF Len(upper) = 1 THEN Join(upper)
       ELSE Join(SubSeq(upper, 1, IF Len(upper) < 3 THEN Len(upper) ELSE 3))

\* Into [-180, 180)
WrapAngle(angle) == ((angle + 180) % 360) - 180

\* Variant: the difference is not wrapped.
AngleDistanceUnwrapped(a, b) == Abs(a - b)

AngleDistance(a, b) == Abs(WrapAngle(a - b))

MinOf(S) == CHOOSE x \in S : \A y \in S : x <= y

\* rotamer_penalty on mappings residue index -> chi angles and -> type, with
\* the way it ends; the penalty is in units of 1/Unit.
RotamerPenalty(res_idx, coords, residue_types) ==
    IF res_idx \notin DOMAIN residue_types
    THEN [status |-> "ValueError", detail |-> "Unknown residue index", out |-> 0]
    ELSE IF res_idx \notin DOMAIN coords
    THEN [status |-> "ValueError", detail |-> "Missing chi angles", out |-> 0]
    ELSE
      LET residue_type == NormaliseResidueKey(residue_types[res_idx])
          chi_angles == coords[res_idx]
          expected == Get(RESIDUE_CHI_COUNT, residue_type, Len(chi_angles))
      IN IF expected = 0 \/ chi_angles = <<>>
         THEN [status |-> "ok", detail |-> "", out |-> 0]
         ELSE IF Len(chi_angles) < expected
         THEN [status |-> "ValueError", detail |-> "expected more chi angles", out |-> 0]
         ELSE
           LET library == ROTAMER_LIBRARY(residue_type)
               bins == IF library = {} THEN ROTAMER_LIBRARY("DEFAULT") ELSE library
               chi_count == IF library = {} THEN MinOf({expected, Len(chi_angles), 1})
                            ELSE expected
               relevant_angles == SubSeq(chi_angles, 1, chi_count)
               matching == {bin \in bins : Len(bin[1]) = Len(relevant_angles)}
               excess_sq(bin) ==
                   SumOver(1..chi_count,
                       [i \in 1..chi_count |->
                           LET delta == AngleDistance(relevant_angles[i], bin[1][i])
                           IN IF delta <= bin[2][i] THEN 0
                              ELSE (delta - bin[2][i]) * (delta - bin[2][i])])
           IN IF matching = {} THEN [status |-> "ok", detail |-> "", out |-> 0]
              ELSE [status |-> "ok", detail |-> "",
                    out |-> ALPHA_ROT * MinOf({excess_sq(bin) : bin \in matching})]

\* Most chi angles in one list handed to rotamer_penalty.
MaxChi == 2

\* Degrees: on the centres, on and past the edge of a window, between windows,
\* more than a turn away.
ChiAngles == {-60, 60, 95, 96, 140, 0, -145, 600}

ChiLists == UNION {[1..k -> ChiAngles] : k \in 0..MaxChi}

\* Residue types as sent: one, two and no chi angle expected, padded, in lower
\* case, a one-letter code, the name build_state gives an unknown letter.
RotamerTypes ==
    {<<"S", "E", "R">>, <<"s", "e", "r">>, <<"L", "E", "U">>, <<"G", "L", "Y">>,
     <<" ", "A", "L", "A", " ">>, <<"S">>, <<"U", "N", "K">>,
     <<"T", "h", "r", "e", "o", "n", "i", "n", "e">>}

\* The chi map of a request: the residue's list, or no entry for it.
ChiMaps == {[i \in {0} |-> chis] : chis \in ChiLists} \cup {EmptyDict}

CallRotamerPenalty(res_idx, coords, residue_types) ==
    LET out == RotamerPenalty(res_idx, coords, residue_types)
    IN /\ call.fn = "none"
       /\ call' = [fn |-> "rotamer_penalty", args |-> <<res_idx, coords, residue_types>>,
                   status |-> out.status, out |-> out.out]
       /\ UNCHANGED <<core, nudge, requests, store>>

Rotamer == \E res_idx \in {0, 1} : \E coords \in ChiMaps : \E type \in RotamerTypes :
               CallRotamerPenalty(res_idx, coords, [i \in {0} |-> type])

NextCalls == Build \/ Clash \/ Compact \/ Rotamer

SpecCalls == InitCalls /\ [][NextCalls]_vars

\* The name build_state gives a residue for each code of Letters.
NameOfLetter(code) ==
    CASE code = "A" -> "ALA"
      [] code = "g" -> "GLY"
      [] code = "w" -> "TRP"
      [] OTHER -> "UNK"

\* C15: build_state(sequence, coords) returns a State with one residue per
\* sequence character, ids 0..len-1, residue i holding N, CA, C at coords[3i],
\* coords[3i+1], coords[3i+2], named from the one-letter table with UNK for an
\* unknown letter, every residue indexed in the grid, an empty per_res_cache
\* and the default weights.
C15_BuildStateLayout ==
    (call.fn = "build_state" /\ call.status = "ok") =>
        LET sequence == call.args[1]
            coords == call.args[2]
            n == Len(sequence)
        IN /\ DOMAIN state.residues = 0..(n - 1)
           /\ \A i \in 0..(n - 1) :
                 LET res == state.residues[i]
                 IN /\ res.id = i
                    /\ res.name = NameOfLetter(sequence[i + 1])
                    /\ res.atoms = <<[id |-> <<i, "N">>, xyz |-> coords[3 * i + 1]],
                                     [id |-> <<i, "CA">>, xyz |-> coords[3 * i + 2]],
                                     [id |-> <<i, "C">>, xyz |-> coords[3 * i + 3]]>>
                    /\ i \in DOMAIN state.grid.res2vox
                    /\ state.grid.res2vox[i] = {ToKey(coords[3 * i + k]) : k \in 1..3}
                    /\ CellsOf(i) = {ToKey(coords[3 * i + k]) : k \in 1..3}
           /\ DOMAIN state.per_res_cache = {}
           /\ state.weights = [t \in {"clash", "rama", "rotamer", "ss", "compact",
                                       "hbond"} |-> 1]

\* Three residues, one of an unknown letter and one of a lower-case letter,
\* built from a coordinate array with an entry to spare.
C15_Witness ==
    /\ call.fn = "build_state"
    /\ call.status = "ok"
    /\ call.args[1] = <<"?", "g", "A">>
    /\ Len(call.args[2]) = 10
    /\ state.residues[0].name = "UNK"
    /\ state.residues[1].name = "GLY"
    /\ state.residues[2].atoms[1].xyz = <<-9, -13, 0>>
    /\ Cardinality(DOMAIN state.grid.vox2res) = 4

\* The call was clash_energy on two atoms with known elements.
TwoAtomClash ==
    /\ call.fn = "clash_energy"
    /\ call.status = "ok"
    /\ Len(call.args[1]) = 2

\* The clash energy of the call's two atoms with the second one at xyz.
ClashAt(xyz) ==
    ClashEnergy(<<call.args[1][1], AtomPayload(call.args[1][2].element, xyz)>>,
                call.args[2].softness, call.args[2].cutoff)

\* Squared distance of the first atom of the call to xyz, in square tenths
SeparationSq(xyz) ==
    LET a == call.args[1][1]
    IN (xyz[1] - a.x) * (xyz[1] - a.x) + (xyz[2] - a.y) * (xyz[2] - a.y)
         + (xyz[3] - a.z) * (xyz[3] - a.z)

\* r_i + r_j + softness of the call's two atoms, from the table of radii
\* (C = 1.70, N = 1.55, O = 1.52, S = 1.80, H = 1.10)
ClashTarget ==
    LET r(e) == CASE e \in {"C", "c"} -> 1700 [] e = "N" -> 1550 [] e = "O" -> 1520
                  [] e = "S" -> 1800 [] e = "H" -> 1100
    IN r(call.args[1][1].element) + r(call.args[1][2].element) + call.args[2].softness

\* The overlap is positive with the second atom at xyz, inside the cutoff.
Overlapping(xyz) ==
    /\ ClashTarget * ClashTarget > SeparationSq(xyz) * Unit
    /\ SeparationSq(xyz) * Unit < call.args[2].cutoff * call.args[2].cutoff

\* C17: for two atoms of known elements clash_energy is non-negative, never
\* increases as the distance increases, strictly decreases while the overlap
\* r_i + r_j + softness - distance is positive, and is exactly 0 once the
\* overlap is <= 0 or the distance reaches the cutoff.
C17_ClashDecreasesWithDistance ==
    TwoAtomClash =>
        LET here == <<call.args[1][2].x, call.args[1][2].y, call.args[1][2].z>>
        IN /\ call.out >= 0
           /\ \A xyz \in ClashPositions :
                 SeparationSq(xyz) > SeparationSq(here) =>
                    /\ ClashAt(xyz) <= call.out
                    /\ Overlapping(xyz) => ClashAt(xyz) < call.out
           /\ ~Overlapping(here) => call.out = 0
           /\ Overlapping(here) => call.out > 0

\* Two carbons inside their overlap, with farther positions that overlap less,
\* that touch and that are beyond the cutoff.
C17_Witness ==
    /\ TwoAtomClash
    /\ call.args[1][1].element = "C" /\ call.args[1][2].element = "c"
    /\ call.args[2] = [softness |-> 200, cutoff |-> 8000]
    /\ SeparationSq(<<call.args[1][2].x, call.args[1][2].y, call.args[1][2].z>>) = 800
    /\ call.out > 0
    /\ ClashAt(<<30, 0, 0>>) > 0 /\ ClashAt(<<30, 0, 0>>) < call.out
    /\ ClashAt(<<36, 0, 0>>) = 0
    /\ ClashAt(<<80, 0, 0>>) = 0

\* C18 as stated: compactness_penalty returns 0 for an empty list of points
\* and for a list of exactly one point.
C18_ZeroForAtMostOnePoint ==
    (call.fn = "compactness_penalty" /\ Len(call.args[1]) <= 1) => call.out = 0

\* C18 (amended): compactness_penalty returns 0 for an empty list of points;
\* for a list of exactly one point the radius of gyration is 0 and the penalty
\* is alpha * 2.2 * 2.2 whatever the point (1.452 with the default alpha).
C18_ZeroForNoPoint ==
    call.fn = "compactness_penalty" =>
        /\ Len(call.args[1]) = 0 => call.out = 0
        /\ Len(call.args[1]) = 1 => call.out = (call.args[2] * 220 * 220) \div 10

\* One point away from the origin, scored with the default alpha: 1.452.
C18_Witness ==
    /\ call.fn = "compactness_penalty"
    /\ call.args[1] = <<<<60, 60, 60>>>>
    /\ call.args[2] = 3
    /\ call.out = 14520

\* The call was rotamer_penalty for a residue the type map names.
RotamerCall ==
    /\ call.fn = "rotamer_penalty"
    /\ call.args[1] \in DOMAIN call.args[3]

\* The type of the call's residue, as the table of chi counts spells it.
CalledType == NormaliseResidueKey(call.args[3][call.args[1]])

\* The chi angles sent for the call's residue.
CalledChis == call.args[2][call.args[1]]

\* Smallest |a - c| over all turns
AngularGap(a, c) == MinOf({Abs(a - c + 360 * k) : k \in -3..3})

\* Squared excess of an angle beyond 35 degrees from the nearest centre
ExcessSq(a) ==
    MinOf({IF AngularGap(a, c) <= 35 THEN 0
           ELSE (AngularGap(a, c) - 35) * (AngularGap(a, c) - 35) : c \in {-60, 60, 180}})

\* C19 as stated: for a residue with chi angles, rotamer_penalty is 0 when
\* every chi angle of the residue lies within 35 degrees of a centre of one
\* bin, and otherwise strictly positive and equal to 0.02 times the smallest
\* summed squared excess over the bins.
C19_ZeroInsideABin ==
    (RotamerCall /\ call.status = "ok" /\ call.args[1] \in DOMAIN call.args[2]
       /\ CalledChis # <<>>)
      => LET total == SumOver(1..Len(CalledChis),
                         [i \in 1..Len(CalledChis) |-> ExcessSq(CalledChis[i])])
         IN /\ total = 0 => call.out = 0
            /\ total > 0 => (call.out > 0 /\ call.out = 200 * total)

\* The chi angles rotamer_penalty reads: as many as the type expects, the
\* first one of a type without an entry in the table of chi counts.
ReadChis ==
    SubSeq(CalledChis, 1,
           IF CalledType \in DOMAIN RESIDUE_CHI_COUNT THEN RESIDUE_CHI_COUNT[CalledType]
           ELSE 1)

\* C19 (amended): the same, over the chi angles rotamer_penalty reads: the
\* first n angles for a type expecting n, the first angle for a type that is
\* not in the table; angles after these do not count.
C19_ZeroInsideABinOfReadAngles ==
    (RotamerCall /\ call.status = "ok" /\ call.args[1] \in DOMAIN call.args[2]
       /\ CalledChis # <<>>)
      => LET total == SumOver(1..Len(ReadChis),
                         [i \in 1..Len(ReadChis) |-> ExcessSq(ReadChis[i])])
         IN /\ total = 0 => call.out = 0
            /\ total > 0 => (call.out > 0 /\ call.out = 200 * total)

\* A residue expecting two chi angles, one a degree past the window of 60 and
\* one more than a turn away from the centre it is nearest to.
C19_Witness ==
    /\ RotamerCall
    /\ call.status = "ok"
    /\ CalledType = "LEU"
    /\ CalledChis = <<96, 600>>
    /\ call.out = 200 * (1 + 625)

\* C20: when the chi data of a residue whose type expects at least one chi
\* angle is missing (no entry, an empty list, fewer angles than expected),
\* rotamer_penalty fails with an error instead of returning a value.
C20_MissingChiIsAnError ==
    (RotamerCall /\ CalledType \in DOMAIN RESIDUE_CHI_COUNT
       /\ RESIDUE_CHI_COUNT[CalledType] >= 1
       /\ \/ call.args[1] \notin DOMAIN call.args[2]
          \/ Len(CalledChis) < RESIDUE_CHI_COUNT[CalledType])
      => call.status = "ValueError"

----------------------------------------------------------------------------
(* suggest_nudge, step by step: the baseline score_total, then for each       *)
(* candidate its evaluation (update_residue_coords and local_rescore) and the *)
(* restoring of coordinates and cache, then the return.  The positions a      *)
(* candidate computes by a rotation of 5 or 10 degrees or by the rotamer      *)
(* offset are replaced by lattice positions; the atoms a candidate names are  *)
(* those of the code: N for a torsion candidate, N and CA for a rotamer one.  *)

CaptureCoords(residue) ==
    [name \in {residue.atoms[i].id[2] : i \in 1..Len(residue.atoms)} |->
        LET as == {i \in 1..Len(residue.atoms) : residue.atoms[i].id[2] = name}
        IN residue.atoms[CHOOSE x \in as : \A o \in as : o <= x].xyz]

Shift(p, d) == <<p[1] + d[1], p[2] + d[2], p[3] + d[3]>>

\* The updates of the candidates _generate_moves yields for one residue: phi
\* rotates N about an axis through N, psi rotates N about the axis CA -> C,
\* a rotamer offsets N and CA.
CandidateUpdates(coords) ==
    (IF "N" \in DOMAIN coords /\ "CA" \in DOMAIN coords /\ coords["N"] # coords["CA"]
     THEN {[name \in {"N"} |-> coords["N"]]} ELSE {})
    \cup (IF "CA" \in DOMAIN coords /\ "C" \in DOMAIN coords /\ coords["CA"] # coords["C"]
          THEN {[name \in {"N"} |-> Shift(Get(coords, "N", coords["CA"]), d)] :
                   d \in {<<0, 1, 0>>, <<0, 0, -1>>}}
          ELSE {})
    \cup (IF "N" \in DOMAIN coords
          THEN {[name \in {"N", "CA"} \cap ({"N"} \cup DOMAIN coords) |->
                    IF name = "N" THEN Shift(coords["N"], <<4 * dir, 0, 2 * dir>>)
                    ELSE Shift(coords["CA"], <<-dir, dir, 0>>)] : dir \in {-1, 1}}
          ELSE {})

\* suggest_nudge up to the saving of the baseline cache
NudgeStart ==
    LET s0 == InitialiseWeights(state)
        out == ScoreTotal(s0)
    IN /\ nudge.pc = "idle"
       /\ ops < MaxOps
       /\ ops' = ops + 1
       /\ IF DOMAIN s0.residues = {}
          THEN /\ state' = s0
               /\ last' = [NoOp EXCEPT !.op = "suggest_nudge"]
               /\ UNCHANGED <<result, protocol, full_calls, nudge>>
          ELSE /\ state' = out.state
               /\ result' = out.result
               /\ last' = [NoOp EXCEPT !.op = "score_total",
                                       !.calls = TotalCalls(out.state) - TotalCalls(s0),
                                       !.full = (out.state.stats.full_passes
                                                   # s0.stats.full_passes)]
               /\ protocol' = IF protocol \in {"fresh", "synced"} THEN "synced"
                              ELSE "broken"
               /\ full_calls' = IF last'.full THEN last'.calls ELSE full_calls
               /\ nudge' = [NoNudge EXCEPT !.pc = "candidates",
                                           !.baseline_cache = out.state.per_res_cache,
                                           !.entry = [residues |-> state.residues,
                                                      atom_index |-> state.atom_index,
                                                      grid |-> state.grid]]
       /\ UNCHANGED <<pending, call, requests, store>>

\* _evaluate_candidate up to the result of local_rescore
NudgeEvaluate(res_idx, updates) ==
    LET original_coords == CaptureCoords(state.residues[res_idx])
        s1 == UpdateResidueCoords(state, res_idx, updates)
        out == LocalRescore(s1, {res_idx})
    IN /\ nudge.pc = "candidates"
       /\ ops < MaxOps
       /\ FirstAtomsApart(s1)
       /\ state' = out.state
       /\ result' = out.result
       /\ ops' = ops + 1
       /\ last' = [NoOp EXCEPT !.op = "local_rescore", !.rid = res_idx,
                               !.new_xyz = updates,
                               !.affected = {res_idx},
                               !.todo = Todo(s1, {res_idx}),
                               !.calls = TotalCalls(out.state) - TotalCalls(state),
                               !.full = (out.state.stats.full_passes
                                           # state.stats.full_passes)]
       /\ nudge' = [nudge EXCEPT !.pc = "evaluated", !.res_idx = res_idx,
                                 !.revert_coords =
                                     [name \in (DOMAIN updates) \cap (DOMAIN original_coords)
                                        |-> original_coords[name]]]
       /\ protocol' = "broken"
       /\ UNCHANGED <<pending, full_calls, call, requests, store>>

\* _evaluate_candidate when local_rescore raises: the candidate is applied,
\* the pass is counted and no cache entry is rewritten
NudgeEvaluateFails(res_idx, updates) ==
    LET original_coords == CaptureCoords(state.residues[res_idx])
        s1 == UpdateResidueCoords(state, res_idx, updates)
    IN /\ nudge.pc = "candidates"
       /\ ops < MaxOps
       /\ state' = [s1 EXCEPT !.stats.incremental_passes = @ + 1]
       /\ ops' = ops + 1
       /\ last' = [NoOp EXCEPT !.op = "evaluation_failed", !.rid = res_idx,
                               !.new_xyz = updates]
       /\ nudge' = [nudge EXCEPT !.pc = "evaluated", !.res_idx = res_idx,
                                 !.revert_coords =
                                     [name \in (DOMAIN updates) \cap (DOMAIN original_coords)
                                        |-> original_coords[name]]]
       /\ protocol' = "broken"
       /\ UNCHANGED <<result, pending, full_calls, call, requests, store>>

\* Variant: the finally block puts back the cache and not the coordinates.
NudgeRestoreCacheOnly ==
    /\ nudge.pc = "evaluated"
    /\ state' = [state EXCEPT !.per_res_cache = nudge.baseline_cache]
    /\ last' = [NoOp EXCEPT !.op = "restore_cache", !.rid = nudge.res_idx]
    /\ nudge' = [nudge EXCEPT !.pc = "candidates"]
    /\ UNCHANGED <<result, ops, protocol, pending, full_calls, call, requests, store>>

\* The finally block of _evaluate_candidate
NudgeRestore ==
    LET s1 == IF DOMAIN nudge.revert_coords # {}
              THEN UpdateResidueCoords(state, nudge.res_idx, nudge.revert_coords)
              ELSE state
    IN /\ nudge.pc = "evaluated"
       /\ state' = [s1 EXCEPT !.per_res_cache = nudge.baseline_cache]
       /\ last' = [NoOp EXCEPT !.op = "restore_cache", !.rid = nudge.res_idx]
       /\ nudge' = [nudge EXCEPT !.pc = "candidates"]
       /\ UNCHANGED <<result, ops, protocol, pending, full_calls, call, requests, store>>

\* The return of suggest_nudge once the candidates are evaluated
NudgeFinish ==
    /\ nudge.pc = "candidates"
    /\ state' = [state EXCEPT !.per_res_cache = nudge.baseline_cache]
    /\ last' = [NoOp EXCEPT !.op = "suggest_nudge"]
    /\ nudge' = NoNudge
    /\ UNCHANGED <<result, ops, protocol, pending, full_calls, call, requests, store>>

Evaluate ==
    \E res_idx \in DOMAIN state.residues :
        \E updates \in CandidateUpdates(CaptureCoords(state.residues[res_idx])) :
            NudgeEvaluate(res_idx, updates)

EvaluateFails ==
    \E res_idx \in DOMAIN state.residues :
        \E updates \in CandidateUpdates(CaptureCoords(state.residues[res_idx])) :
            NudgeEvaluateFails(res_idx, updates)

\* Between two suggest_nudge calls the coordinates of the State are updated.
Idle == nudge.pc = "idle" /\ Update

NextNudge == Idle \/ NudgeStart \/ Evaluate \/ EvaluateFails \/ NudgeRestore \/ NudgeFinish

SpecNudge == Init /\ [][NextNudge]_vars

\* In one step no cache entry goes away and no version goes down.
NoVersionDrop ==
    \A rid \in DOMAIN Cache :
        rid \in DOMAIN Cache' /\ Cache'[rid].version >= Cache[rid].version

\* An entry computed for the first time has version 1.
FirstVersionIsOne == \A rid \in (DOMAIN Cache') \ (DOMAIN Cache) : Cache'[rid].version = 1

\* local_rescore adds exactly 1 to the version of every entry it recomputes.
RescoreAddsOne ==
    last'.op = "local_rescore" =>
        \A rid \in last'.todo \cap DOMAIN Cache :
            Cache'[rid].version = Cache[rid].version + 1

\* C11 as stated: the version of a cache entry never decreases, whatever is
\* done with the State; it is 1 when the entry is first computed and goes up
\* by exactly 1 each time local_rescore recomputes the entry.
C11_VersionNeverDecreases ==
    [][NoVersionDrop /\ FirstVersionIsOne /\ RescoreAddsOne]_vars

\* C11 (amended): the same across every score_total and local_rescore call and
\* every coordinate update; the step of suggest_nudge that ends the evaluation
\* of a candidate puts back the cache saved after the baseline score_total,
\* so the versions local_rescore had raised return to their baseline values.
C11_VersionNeverDecreasesInScoringCalls ==
    [][/\ last'.op # "restore_cache"
            => (NoVersionDrop /\ FirstVersionIsOne /\ RescoreAddsOne)
       /\ last'.op = "restore_cache" => Cache' = nudge.baseline_cache]_vars

\* A candidate of a State of three residues was evaluated by local_rescore
\* and the cache put back: every version is 1 again.
C11_Witness ==
    /\ last.op = "restore_cache"
    /\ Cardinality(ResidueIds) = 3
    /\ state.stats.incremental_passes = 1
    /\ DOMAIN Cache = ResidueIds
    /\ \A rid \in ResidueIds : Cache[rid].version = 1

----------------------------------------------------------------------------
(* POST /api/score with a diff: the body is JSON, so a value of the diff is a *)
(* number, a string, a boolean, null, an array or an object.  Positions are   *)
(* lattice points and torsion deltas are whole degrees.                       *)

JNum(n) == [kind |-> "number", value |-> n]

\* A string, as its sequence of characters
JStr(chars) == [kind |-> "string", value |-> chars]

JBool(b) == [kind |-> "bool", value |-> b]

JNull == [kind |-> "null"]

JArr(items) == [kind |-> "array", value |-> items]

JObj(fields) == [kind |-> "object", value |-> fields]

\* dict.get(key): None when the key is absent, and JSON null is None
Field(object, key) == Get(object.value, key, JNull)

DigitValue == ("0" :> 0) @@ ("1" :> 1) @@ ("2" :> 2) @@ ("3" :> 3) @@ ("4" :> 4)
              @@ ("5" :> 5) @@ ("6" :> 6) @@ ("7" :> 7) @@ ("8" :> 8) @@ ("9" :> 9)

RECURSIVE DigitsValue(_)
DigitsValue(chars) ==
    IF chars = <<>> THEN 0
    ELSE 10 * DigitsValue(SubSeq(chars, 1, Len(chars) - 1)) + DigitValue[chars[Len(chars)]]

\* The number a text denotes for int() and float(): blanks around it are
\* dropped, a sign may lead, one digit at least follows.  The texts of the
\* requests hold digits, a sign, blanks and characters no number has.
ParseNumber(chars) ==
    LET stripped == Strip(chars)
        signed == stripped # <<>> /\ Head(stripped) \in {"-", "+"}
        digits == IF signed THEN Tail(stripped) ELSE stripped
        valid == digits # <<>> /\ \A i \in 1..Len(digits) : digits[i] \in DOMAIN DigitValue
    IN IF ~valid THEN [ok |-> FALSE, error |-> "ValueError", value |-> 0]
       ELSE [ok |-> TRUE, error |-> "",
             value |-> IF signed /\ Head(stripped) = "-" THEN -DigitsValue(digits)
                       ELSE DigitsValue(digits)]

\* float(x) and int(x) of Python on a JSON value: a number and a boolean
\* convert, a string converts when it denotes a number, anything else is a
\* TypeError.
PyNumber(json) ==
    CASE json.kind = "number" -> [ok |-> TRUE, error |-> "", value |-> json.value]
      [] json.kind = "bool" -> [ok |-> TRUE, error |-> "",
                                value |-> IF json.value THEN 1 ELSE 0]
      [] json.kind = "string" -> ParseNumber(json.value)
      [] OTHER -> [ok |-> FALSE, error |-> "TypeError", value |-> 0]

\* Variant: only a JSON number is taken as a number.
PyNumberOfNumbersOnly(json) ==
    IF json.kind = "number" THEN [ok |-> TRUE, error |-> "", value |-> json.value]
    ELSE [ok |-> FALSE, error |-> "TypeError", value |-> 0]

PyFloat(json) == PyNumber(json)

PyInt(json) == PyNumber(json)

\* str.lower()
Lower(chars) ==
    [i \in 1..Len(chars) |->
        IF \E k \in DOMAIN LowerToUpper : LowerToUpper[k] = chars[i]
        THEN CHOOSE k \in DOMAIN LowerToUpper : LowerToUpper[k] = chars[i]
        ELSE chars[i]]

CoerceVector(value) ==
    IF value.kind # "array" \/ Len(value.value) # 3
    THEN [ok |-> FALSE, xyz |-> <<0, 0, 0>>]
    ELSE LET x == PyFloat(value.value[1])
             y == PyFloat(value.value[2])
             z == PyFloat(value.value[3])
         IN IF x.ok /\ y.ok /\ z.ok THEN [ok |-> TRUE, xyz |-> <<x.value, y.value, z.value>>]
            ELSE [ok |-> FALSE, xyz |-> <<0, 0, 0>>]

VecSub(a, b) == <<a[1] - b[1], a[2] - b[2], a[3] - b[3]>>

VecAdd(a, b) == <<a[1] + b[1], a[2] + b[2], a[3] + b[3]>>

VecScale(v, factor) == <<v[1] * factor, v[2] * factor, v[3] * factor>>

VecDot(a, b) == a[1] * b[1] + a[2] * b[2] + a[3] * b[3]

VecCross(a, b) ==
    <<a[2] * b[3] - a[3] * b[2], a[3] * b[1] - a[1] * b[3], a[1] * b[2] - a[2] * b[1]>>

\* An axis along one lattice direction (or of length zero) and a whole number
\* of quarter turns keep every rotated atom on the lattice.
OnLattice(axis_direction, degrees) ==
    /\ Cardinality({i \in 1..3 : axis_direction[i] # 0}) <= 1
    /\ degrees % 90 = 0

Sign(n) == IF n > 0 THEN 1 ELSE IF n < 0 THEN -1 ELSE 0

\* _vec_normalise of an axis along a lattice direction
VecNormalise(a) == <<Sign(a[1]), Sign(a[2]), Sign(a[3])>>

\* Cosine and sine of a whole number of quarter turns
CosDeg(degrees) == CASE degrees % 360 = 0 -> 1 [] degrees % 360 = 180 -> -1 [] OTHER -> 0

SinDeg(degrees) == CASE degrees % 360 = 90 -> 1 [] degrees % 360 = 270 -> -1 [] OTHER -> 0

RotatePointAroundAxis(point, origin, axis_unit, degrees) ==
    LET rel == VecSub(point, origin)
        term1 == VecScale(rel, CosDeg(degrees))
        term2 == VecScale(VecCross(axis_unit, rel), SinDeg(degrees))
        term3 == VecScale(axis_unit, VecDot(axis_unit, rel) * (1 - CosDeg(degrees)))
    IN VecAdd(VecAdd(VecAdd(term1, term2), term3), origin)

\* The updates of a rotation: residue id -> atom name -> new position.
\* skip_atoms names the atoms of residues that stay where they are.
\* Variant: a rotation of zero magnitude yields updates too.
ApplyRotationOfAnyMagnitude(s, axis_origin, axis_direction, degrees, residues, skip_atoms) ==
    IF axis_direction = <<0, 0, 0>> THEN EmptyDict
    ELSE LET unit == VecNormalise(axis_direction)
             names(rid) == {s.residues[rid].atoms[i].id[2] :
                              i \in 1..Len(s.residues[rid].atoms)}
                           \ Get(skip_atoms, rid, {})
             captured(rid) == CaptureCoords(s.residues[rid])
             rids == {rid \in residues \cap DOMAIN s.residues : names(rid) # {}}
         IN [rid \in rids |->
               [name \in names(rid) |->
                  RotatePointAroundAxis(captured(rid)[name], axis_origin, unit, degrees)]]

ApplyRotationToResidues(s, axis_origin, axis_direction, degrees, residues, skip_atoms) ==
    IF axis_direction = <<0, 0, 0>> \/ degrees = 0 THEN EmptyDict
    ELSE LET unit == VecNormalise(axis_direction)
             names(rid) == {s.residues[rid].atoms[i].id[2] :
                              i \in 1..Len(s.residues[rid].atoms)}
                           \ Get(skip_atoms, rid, {})
             captured(rid) == CaptureCoords(s.residues[rid])
             rids == {rid \in residues \cap DOMAIN s.residues : names(rid) # {}}
         IN [rid \in rids |->
               [name \in names(rid) |->
                  RotatePointAroundAxis(captured(rid)[name], axis_origin, unit, degrees)]]

\* Variant: only the residues after the target are turned.
ApplyPhiDownstreamOnly(s, res_idx, delta) ==
    IF res_idx \notin DOMAIN s.residues THEN EmptyDict
    ELSE LET coords == CaptureCoords(s.residues[res_idx])
         IN IF "N" \notin DOMAIN coords \/ "CA" \notin DOMAIN coords THEN EmptyDict
            ELSE ApplyRotationToResidues(s, coords["N"], VecSub(coords["CA"], coords["N"]),
                     delta, {rid \in DOMAIN s.residues : rid > res_idx}, EmptyDict)

\* Variant: the target residue is turned as well.
ApplyPsiFromTarget(s, res_idx, delta) ==
    IF res_idx \notin DOMAIN s.residues THEN EmptyDict
    ELSE LET coords == CaptureCoords(s.residues[res_idx])
         IN IF "CA" \notin DOMAIN coords \/ "C" \notin DOMAIN coords THEN EmptyDict
            ELSE ApplyRotationToResidues(s, coords["CA"], VecSub(coords["C"], coords["CA"]),
                     delta, {rid \in DOMAIN s.residues : rid >= res_idx}, EmptyDict)

ApplyPhi(s, res_idx, delta) ==
    IF res_idx \notin DOMAIN s.residues THEN EmptyDict
    ELSE LET coords == CaptureCoords(s.residues[res_idx])
         IN IF "N" \notin DOMAIN coords \/ "CA" \notin DOMAIN coords THEN EmptyDict
            ELSE ApplyRotationToResidues(s, coords["N"], VecSub(coords["CA"], coords["N"]),
                     delta, {rid \in DOMAIN s.residues : rid >= res_idx},
                     [rid \in {res_idx} |-> {"N", "CA"}])

ApplyPsi(s, res_idx, delta) ==
    IF res_idx \notin DOMAIN s.residues THEN EmptyDict
    ELSE LET coords == CaptureCoords(s.residues[res_idx])
         IN IF "CA" \notin DOMAIN coords \/ "C" \notin DOMAIN coords THEN EmptyDict
            ELSE ApplyRotationToResidues(s, coords["CA"], VecSub(coords["C"], coords["CA"]),
                     delta, {rid \in DOMAIN s.residues : rid > res_idx}, EmptyDict)

\* The offsets of _apply_rotamer are (0.4, 0, 0.2) for N and (-0.1, 0.1, 0) for
\* CA, times -1 for rotamer 0; on the lattice they are taken ten times as long.
ApiApplyRotamer(coords, rotamer_id) ==
    IF "N" \notin DOMAIN coords THEN EmptyDict
    ELSE LET direction == IF rotamer_id = 0 THEN -1 ELSE 1
         IN [name \in {"N", "CA"} \cap DOMAIN coords |->
               IF name = "N" THEN Shift(coords["N"], <<4 * direction, 0, 2 * direction>>)
               ELSE Shift(coords["CA"], <<-direction, direction, 0>>)]

\* bucket.update(atoms) for every residue of source
MergeResidueUpdates(target, source) ==
    [rid \in (DOMAIN target) \cup (DOMAIN source) |->
        IF rid \notin DOMAIN source THEN target[rid]
        ELSE IF rid \notin DOMAIN target THEN source[rid]
        ELSE [name \in (DOMAIN target[rid]) \cup (DOMAIN source[rid]) |->
                 IF name \in DOMAIN source[rid] THEN source[rid][name]
                 ELSE target[rid][name]]]

NoUpdates(status, detail) ==
    [status |-> status, detail |-> detail, affected |-> {}, updates |-> EmptyDict]

\* Variant: the target residue alone is handed to local_rescore.
MoveUpdatesAffectingTarget(s, res_idx, move) ==
    LET coords == CaptureCoords(s.residues[res_idx])
        type == Field(move, "type")
        move_type == IF type.kind = "string" THEN Join(Lower(type.value)) ELSE ""
        done(affected, updates) ==
            [status |-> 200, detail |-> "", affected |-> affected, updates |-> updates]
    IN IF move_type = "torsion"
       THEN LET delta == Field(move, "delta")
                phi == IF delta.kind = "object" THEN Field(delta, "phi") ELSE JNull
                psi == IF delta.kind = "object" THEN Field(delta, "psi") ELSE JNull
                phi_delta == PyFloat(phi)
                psi_delta == PyFloat(psi)
                phi_updates == IF phi.kind = "null" THEN EmptyDict
                               ELSE ApplyPhi(s, res_idx, phi_delta.value)
                psi_updates == IF psi.kind = "null" THEN EmptyDict
                               ELSE ApplyPsi(s, res_idx, psi_delta.value)
            IN IF phi.kind # "null" /\ ~phi_delta.ok
               THEN NoUpdates(400, "Invalid phi delta")
               ELSE IF psi.kind # "null" /\ ~psi_delta.ok
               THEN NoUpdates(400, "Invalid psi delta")
               ELSE done({res_idx},
                         MergeResidueUpdates(phi_updates, psi_updates))
       ELSE IF move_type = "rotamer"
       THEN LET rotamer_id == IF "rotamer_id" \in DOMAIN move.value
                              THEN PyInt(move.value["rotamer_id"])
                              ELSE PyInt(JNum(0))
                rotamer_updates == ApiApplyRotamer(coords, rotamer_id.value)
            IN IF ~rotamer_id.ok THEN NoUpdates(400, "Invalid rotamer id")
               ELSE done({res_idx},
                         IF DOMAIN rotamer_updates = {} THEN EmptyDict
                         ELSE [rid \in {res_idx} |-> rotamer_updates])
       ELSE LET names == (DOMAIN move.value) \ {"type"}
            IN IF \E name \in names : ~CoerceVector(move.value[name]).ok
               THEN NoUpdates(400, "Invalid atom update")
               ELSE done({res_idx},
                         IF names = {} THEN EmptyDict
                         ELSE [rid \in {res_idx} |->
                                 [name \in names |-> CoerceVector(move.value[name]).xyz]])

\* _diff_updates from move_type on: the residue is in the State and the move
\* is an object.
MoveUpdates(s, res_idx, move) ==
    LET coords == CaptureCoords(s.residues[res_idx])
        type == Field(move, "type")
        move_type == IF type.kind = "string" THEN Join(Lower(type.value)) ELSE ""
        done(affected, updates) ==
            [status |-> 200, detail |-> "", affected |-> affected, updates |-> updates]
    IN IF move_type = "torsion"
       THEN LET delta == Field(move, "delta")
                phi == IF delta.kind = "object" THEN Field(delta, "phi") ELSE JNull
                psi == IF delta.kind = "object" THEN Field(delta, "psi") ELSE JNull
                phi_delta == PyFloat(phi)
                psi_delta == PyFloat(psi)
                phi_updates == IF phi.kind = "null" THEN EmptyDict
                               ELSE ApplyPhi(s, res_idx, phi_delta.value)
                psi_updates == IF psi.kind = "null" THEN EmptyDict
                               ELSE ApplyPsi(s, res_idx, psi_delta.value)
            IN IF phi.kind # "null" /\ ~phi_delta.ok
               THEN NoUpdates(400, "Invalid phi delta")
               ELSE IF psi.kind # "null" /\ ~psi_delta.ok
               THEN NoUpdates(400, "Invalid psi delta")
               ELSE done({res_idx} \cup DOMAIN phi_updates \cup DOMAIN psi_updates,
                         MergeResidueUpdates(phi_updates, psi_updates))
       ELSE IF move_type = "rotamer"
       THEN LET rotamer_id == IF "rotamer_id" \in DOMAIN move.value
                              THEN PyInt(move.value["rotamer_id"])
                              ELSE PyInt(JNum(0))
                rotamer_updates == ApiApplyRotamer(coords, rotamer_id.value)
            IN IF ~rotamer_id.ok THEN NoUpdates(400, "Invalid rotamer id")
               ELSE done({res_idx},
                         IF DOMAIN rotamer_updates = {} THEN EmptyDict
                         ELSE [rid \in {res_idx} |-> rotamer_updates])
       ELSE LET names == (DOMAIN move.value) \ {"type"}
            IN IF \E name \in names : ~CoerceVector(move.value[name]).ok
               THEN NoUpdates(400, "Invalid atom update")
               ELSE done({res_idx},
                         IF names = {} THEN EmptyDict
                         ELSE [rid \in {res_idx} |->
                                 [name \in names |-> CoerceVector(move.value[name]).xyz]])

\* Variant: a residue index the State does not have yields no updates.
DiffUpdatesMissingIsNoOp(s, diff) ==
    LET res_idx == IF "res_idx" \in DOMAIN diff.value THEN PyInt(diff.value["res_idx"])
                   ELSE [ok |-> FALSE, error |-> "KeyError", value |-> 0]
        move == Field(diff, "move")
    IN IF ~res_idx.ok THEN NoUpdates(400, "Invalid diff payload")
       ELSE IF res_idx.value \notin DOMAIN s.residues
       THEN [status |-> 200, detail |-> "", affected |-> {res_idx.value},
             updates |-> EmptyDict]
       ELSE IF move.kind # "object" THEN NoUpdates(400, "diff.move must be an object")
       ELSE MoveUpdates(s, res_idx.value, move)

DiffUpdates(s, diff) ==
    LET res_idx == IF "res_idx" \in DOMAIN diff.value THEN PyInt(diff.value["res_idx"])
                   ELSE [ok |-> FALSE, error |-> "KeyError", value |-> 0]
        move == Field(diff, "move")
    IN IF ~res_idx.ok THEN NoUpdates(400, "Invalid diff payload")
       ELSE IF res_idx.value \notin DOMAIN s.residues
       THEN NoUpdates(404, "Residue not found")
       ELSE IF move.kind # "object" THEN NoUpdates(400, "diff.move must be an object")
       ELSE MoveUpdates(s, res_idx.value, move)

\* state.update_residue_coords(rid, atom_updates) for every residue of updates
RECURSIVE ApplyUpdates(_, _)
ApplyUpdates(s, updates) ==
    IF DOMAIN updates = {} THEN s
    ELSE LET rid == CHOOSE r \in DOMAIN updates : TRUE
         IN ApplyUpdates(UpdateResidueCoords(s, rid, updates[rid]), Pop(updates, rid))

\* The rotations a torsion diff asks for stay on the lattice.
TorsionOnLattice(s, diff) ==
    LET res_idx == PyInt(Field(diff, "res_idx"))
        move == Field(diff, "move")
        delta == IF move.kind = "object" THEN Field(move, "delta") ELSE JNull
        coords == CaptureCoords(s.residues[res_idx.value])
        exact(name, from, to) ==
            LET angle == PyFloat(Field(delta, name))
            IN (angle.ok /\ from \in DOMAIN coords /\ to \in DOMAIN coords)
                  => OnLattice(VecSub(coords[to], coords[from]), angle.value)
    IN (res_idx.ok /\ res_idx.value \in DOMAIN s.residues /\ delta.kind = "object")
          => (exact("phi", "N", "CA") /\ exact("psi", "CA", "C"))

\* Requests one State receives
MaxRequests == 2

Vec(x, y, z) == JArr(<<JNum(x), JNum(y), JNum(z)>>)

Torsion == JStr(<<"t", "o", "r", "s", "i", "o", "n">>)

RotamerMove == JStr(<<"r", "o", "t", "a", "m", "e", "r">>)

\* The diffs of the requests, by number
DiffPayloads ==
    << \* 1: no diff
       JNull,
       \* 2..4: raw atom displacements, well-formed
       JObj([res_idx |-> JNum(1),
             move |-> JObj([N |-> Vec(12, 0, 0), CA |-> Vec(13, 0, 0), C |-> Vec(14, 0, 0)])]),
       JObj([res_idx |-> JNum(2),
             move |-> JObj([N |-> Vec(40, 0, 0), CA |-> Vec(41, 0, 0), C |-> Vec(42, 0, 0)])]),
       JObj([res_idx |-> JNum(0), move |-> JObj([XX |-> Vec(1, 2, 3)])]),
       \* 5..6: components that are not numbers and convert
       JObj([res_idx |-> JNum(0),
             move |-> JObj([N |-> JArr(<<JStr(<<"-", "1">>), JStr(<<"0">>), JStr(<<" ", "0">>)>>)])]),
       JObj([res_idx |-> JNum(0),
             move |-> JObj([C |-> JArr(<<JBool(TRUE), JNum(0), JBool(FALSE)>>)])]),
       \* 7..10: raw atom values that do not convert
       JObj([res_idx |-> JNum(0), move |-> JObj([N |-> JArr(<<JNum(1), JNum(2)>>)])]),
       JObj([res_idx |-> JNum(0),
             move |-> JObj([CA |-> Vec(3, 0, 0),
                            N |-> JArr(<<JNum(1), JNum(2), JNull>>)])]),
       JObj([res_idx |-> JNum(0),
             move |-> JObj([C |-> Vec(3, 0, 0),
                            N |-> JArr(<<JNum(1), JNum(2), JStr(<<"x">>)>>)])]),
       JObj([res_idx |-> JNum(0), move |-> JObj([N |-> JStr(<<"1", "2", "3">>)])]),
       \* 11..13: the move is no object
       JObj([res_idx |-> JNum(0), move |-> JNum(5)]),
       JObj([res_idx |-> JNum(0)]),
       JObj([res_idx |-> JNum(0), move |-> JObj(EmptyDict)]),
       \* 14..16: res_idx as a string, as null, absent
       JObj([res_idx |-> JStr(<<"1">>), move |-> JObj([N |-> Vec(3, 0, 0)])]),
       JObj([res_idx |-> JNull, move |-> JObj([N |-> Vec(3, 0, 0)])]),
       JObj([move |-> JObj([N |-> Vec(3, 0, 0)])]),
       \* 17..19: a residue no State has
       JObj([res_idx |-> JNum(7), move |-> JObj([N |-> Vec(3, 0, 0)])]),
       JObj([res_idx |-> JNum(7),
             move |-> JObj([type |-> Torsion, delta |-> JObj([phi |-> JNum(90)])])]),
       JObj([res_idx |-> JNum(7), move |-> JNum(5)]),
       \* 20..27: torsion moves
       JObj([res_idx |-> JNum(0), move |-> JObj([type |-> Torsion, delta |-> JNum(5)])]),
       JObj([res_idx |-> JNum(0),
             move |-> JObj([type |-> Torsion, delta |-> JObj([phi |-> JStr(<<"x">>)])])]),
       JObj([res_idx |-> JNum(0),
             move |-> JObj([type |-> Torsion,
                            delta |-> JObj([phi |-> JNum(90), psi |-> JStr(<<"x">>)])])]),
       JObj([res_idx |-> JNum(0),
             move |-> JObj([type |-> Torsion, delta |-> JObj([phi |-> JNum(90)])])]),
       JObj([res_idx |-> JNum(1),
             move |-> JObj([type |-> JStr(<<"T", "O", "R", "S", "I", "O", "N">>),
                            delta |-> JObj([psi |-> JStr(<<"9", "0">>)])])]),
       JObj([res_idx |-> JNum(0),
             move |-> JObj([type |-> Torsion,
                            delta |-> JObj([phi |-> JNum(90), psi |-> JNum(180)])])]),
       JObj([res_idx |-> JNum(1),
             move |-> JObj([type |-> Torsion, delta |-> JObj([phi |-> JNum(0)])])]),
       JObj([res_idx |-> JNum(2),
             move |-> JObj([type |-> Torsion, delta |-> JObj([psi |-> JNum(90)])])]),
       \* 28..31: rotamer moves
       JObj([res_idx |-> JNum(0),
             move |-> JObj([type |-> RotamerMove, rotamer_id |-> JStr(<<"x">>)])]),
       JObj([res_idx |-> JNum(0),
             move |-> JObj([type |-> RotamerMove, rotamer_id |-> JNull])]),
       JObj([res_idx |-> JNum(0),
             move |-> JObj([type |-> RotamerMove, rotamer_id |-> JStr(<<"1">>)])]),
       JObj([res_idx |-> JNum(1), move |-> JObj([type |-> RotamerMove])]) >>

\* The State get_state hands out: built by build_state, or put there by
\* set_state from State.from_residues without weights.
ApiStates ==
    {BuildState(st.sequence, st.coords) : st \in Structures}
    \cup {FromResidues(BuildResidues(st.sequence, st.coords), EmptyDict) :
             st \in {x \in Structures : Len(x.sequence) = 3}}

InitApi == Init /\ state \in ApiStates

\* api_score for a request that carries no atoms, residues or target_ss
ApiScore(diff) ==
    LET s0 == InitialiseWeights(state)
        has_diff == diff.kind = "object" /\ DOMAIN diff.value # {}
        out == IF has_diff THEN DiffUpdates(s0, diff) ELSE NoUpdates(200, "")
        s1 == ApplyUpdates(s0, out.updates)
        scored == IF DOMAIN out.updates # {} THEN LocalRescore(s1, out.affected)
                  ELSE ScoreTotal(s0)
        branch == IF out.status # 200 THEN "none"
                  ELSE IF DOMAIN out.updates # {} THEN "local_rescore" ELSE "score_total"
    IN /\ ops < MaxRequests
       /\ has_diff => TorsionOnLattice(s0, diff)
       /\ out.status = 200 => FirstAtomsApart(s1)
       /\ ops' = ops + 1
       /\ state' = IF out.status = 200 THEN scored.state ELSE s0
       /\ result' = IF out.status = 200 THEN scored.result ELSE result
       /\ call' = [fn |-> "api_score", args |-> <<diff>>,
                   status |-> IF out.status = 200 THEN "ok" ELSE "HTTPException",
                   out |-> [status_code |-> out.status, detail |-> out.detail,
                            branch |-> branch, updates |-> out.updates]]
       /\ last' = [NoOp EXCEPT !.op = "api_score", !.affected = out.affected,
                               !.todo = IF branch = "local_rescore"
                                        THEN Todo(s1, out.affected) ELSE {}]
       /\ UNCHANGED <<protocol, pending, full_calls, nudge, requests, store>>

Request == \E i \in DOMAIN DiffPayloads : ApiScore(DiffPayloads[i])

NextApi == Request

SpecApi == InitApi /\ [][NextApi]_vars

\* The diff of the request a step answers
AnsweredDiff == call'.args[1]

\* The request a step answers carries a diff whose res_idx is an index that
\* no residue of the State has.
NamesMissingResidue ==
    /\ call'.fn = "api_score"
    /\ AnsweredDiff.kind = "object"
    /\ "res_idx" \in DOMAIN AnsweredDiff.value
    /\ PyInt(AnsweredDiff.value["res_idx"]).ok
    /\ PyInt(AnsweredDiff.value["res_idx"]).value \notin DOMAIN state.residues

\* A step leaves coordinates, atom index, grid, cache and counters alone.
GeometryAndCacheUnchanged ==
    /\ state'.residues = state.residues
    /\ state'.atom_index = state.atom_index
    /\ state'.grid = state.grid
    /\ state'.per_res_cache = state.per_res_cache
    /\ state'.stats = state.stats

IsNumber(json) == json.kind = "number"

MalformedMove(move) ==
    IF move.kind # "object" THEN TRUE
    ELSE LET type == Field(move, "type")
             move_type == IF type.kind = "string" THEN Join(Lower(type.value)) ELSE ""
             delta == Field(move, "delta")
         IN IF move_type = "torsion"
            THEN /\ delta.kind = "object"
                 /\ \E name \in {"phi", "psi"} \cap DOMAIN delta.value :
                       delta.value[name].kind \notin {"number", "null"}
            ELSE IF move_type = "rotamer"
            THEN "rotamer_id" \in DOMAIN move.value /\ ~IsNumber(move.value["rotamer_id"])
            ELSE \E name \in (DOMAIN move.value) \ {"type"} :
                    LET value == move.value[name]
                    IN \/ value.kind # "array"
                       \/ Len(value.value) # 3
                       \/ \E i \in 1..Len(value.value) : ~IsNumber(value.value[i])

\* The request a step answers names a residue of the State and its move is
\* malformed.
AnswersMalformedMove ==
    /\ call'.fn = "api_score"
    /\ AnsweredDiff.kind = "object"
    /\ "res_idx" \in DOMAIN AnsweredDiff.value
    /\ IsNumber(AnsweredDiff.value["res_idx"])
    /\ AnsweredDiff.value["res_idx"].value \in DOMAIN state.residues
    /\ MalformedMove(Field(AnsweredDiff, "move"))

\* C14: a malformed move (a raw atom value that is not an array of three
\* numbers, a phi or psi delta or rotamer id that is not a number, a move that
\* is not an object) is answered with HTTP 400 and changes no coordinate, grid
\* cell or cache entry.
C14_MalformedMoveIsRejected ==
    [][AnswersMalformedMove =>
          /\ call'.out.status_code = 400
          /\ GeometryAndCacheUnchanged]_vars

\* The part of C14 the code keeps: a request answered with HTTP 400 changed no
\* coordinate, grid cell, cache entry or counter.
C14_RejectedMoveChangesNothing ==
    [][(call'.fn = "api_score" /\ call'.out.status_code = 400)
          => GeometryAndCacheUnchanged]_vars

----------------------------------------------------------------------------
(* Two mutate-then-score sequences on one State: each calls                   *)
(* update_residue_coords and then local_rescore on the residue it moved.      *)
(* state.py and score.py take no lock, so the calls of the two sequences run  *)
(* in any order that keeps each sequence's own order.                         *)

NewSequence == [pc |-> "start", rid |-> -1, score |-> 0]

Sequences == {1, 2}

\* The cache is filled by score_total before the two sequences start.
ScoreFirst ==
    LET out == ScoreTotal(state)
    IN /\ requests = NoRequests
       /\ DOMAIN state.residues # {}
       /\ state' = out.state
       /\ result' = out.result
       /\ last' = [NoOp EXCEPT !.op = "score_total",
                               !.calls = TotalCalls(out.state) - TotalCalls(state),
                               !.full = (out.state.stats.full_passes
                                           # state.stats.full_passes)]
       /\ requests' = [i \in Sequences |-> NewSequence]
       /\ UNCHANGED <<ops, protocol, pending, full_calls, call, nudge, store>>

\* update_residue_coords of sequence i
SequenceMoves(i, res_id, new_xyz) ==
    LET s1 == UpdateResidueCoords(state, res_id, new_xyz)
    IN /\ requests # NoRequests
       /\ requests[i].pc = "start"
       /\ FirstAtomsApart(s1)
       /\ state' = s1
       /\ last' = [NoOp EXCEPT !.op = "update_residue_coords", !.rid = res_id,
                               !.new_xyz = new_xyz]
       /\ requests' = [requests EXCEPT ![i] = [@ EXCEPT !.pc = "moved", !.rid = res_id]]
       /\ UNCHANGED <<result, ops, protocol, pending, full_calls, call, nudge, store>>

\* local_rescore of sequence i on the residue it moved
SequenceScores(i) ==
    LET affected == {requests[i].rid}
        out == LocalRescore(state, affected)
    IN /\ requests # NoRequests
       /\ requests[i].pc = "moved"
       /\ state' = out.state
       /\ result' = out.result
       /\ last' = [NoOp EXCEPT !.op = "local_rescore", !.rid = requests[i].rid,
                               !.affected = affected,
                               !.todo = Todo(state, affected),
                               !.calls = TotalCalls(out.state) - TotalCalls(state),
                               !.full = (out.state.stats.full_passes
                                           # state.stats.full_passes)]
       /\ requests' = [requests EXCEPT ![i] = [@ EXCEPT !.pc = "done",
                                                        !.score = out.result.score]]
       /\ UNCHANGED <<ops, protocol, pending, full_calls, call, nudge, store>>

Move ==
    \E i \in Sequences : \E res_id \in DOMAIN state.residues : \E new_xyz \in MovePayloads :
        SequenceMoves(i, res_id, new_xyz)

Scores == \E i \in Sequences : SequenceScores(i)

NextSequences == ScoreFirst \/ Move \/ Scores

SpecSequences == Init /\ [][NextSequences]_vars

\* Sequence i scores in this step while the other sequence has moved its
\* residue and not scored yet.
ScoresBetween(i) ==
    /\ requests # NoRequests
    /\ requests[i].pc = "moved"
    /\ requests[3 - i].pc = "moved"
    /\ requests'[i].pc = "done"

\* C16: when the update_residue_coords of one sequence ran between the
\* update_residue_coords and the local_rescore of the other, nothing holds the
\* local_rescore back, and every residue outside its invalidation set is
\* returned with the cache entry it had before either move, the moved residue
\* of the other sequence and its neighbours included.
C16_InterleavedScoreReturnsOldEntries ==
    [][\A i \in Sequences :
          ScoresBetween(i) =>
             \A rid \in ResidueIds \ last'.todo :
                /\ Cache'[rid] = Cache[rid]
                /\ Cache[rid].version = 1
                /\ rid \in DOMAIN result'.per_residue
                /\ result'.per_residue[rid].total = Cache[rid].total]_vars

\* Sequence 1 scored between the move and the scoring of sequence 2; a third
\* residue, a neighbour of the residue sequence 2 moved and not of the one
\* sequence 1 moved, is outside the invalidation set and is returned with
\* terms that differ from those of the current coordinates.
C16_Witness ==
    /\ requests # NoRequests
    /\ requests[1].pc = "done"
    /\ requests[2].pc = "moved"
    /\ last.op = "local_rescore"
    /\ \E rid \in ResidueIds \ last.todo :
          /\ rid \notin {requests[1].rid, requests[2].rid}
          /\ requests[2].rid \in Neighbours(state, rid)
          /\ requests[1].rid \notin Neighbours(state, rid)
          /\ result.per_residue[rid].terms
                # ComputePerResidueTerms(state, rid, Neighbours(state, rid))

----------------------------------------------------------------------------
(* ramachandran_penalty.  Angles are whole degrees, probabilities are counted *)
(* in millionths and penalties in thousandths; exp and log are evaluated in   *)
(* that fixed-point arithmetic.                                               *)

Micro == 1000 * 1000

Milli == 10 * 100

RAMA_BIN_SIZE == 10

RAMA_BIN_COUNT == 36

\* 10.0, in thousandths
RAMA_MAX_PENALTY == 10 * Milli

\* 1.0e-6, in millionths
RAMA_MIN_PROBABILITY == 1

\* Twice the centre of bin index: -180 + (index + 0.5) * 10
RamaBinCenter2(index) == -360 + (2 * index + 1) * RAMA_BIN_SIZE

\* (phi0, psi0, sigma_phi, sigma_psi, weight in hundredths) of each basin
RAMA_COMPONENTS ==
    [general |-> <<<<-60, -40, 22, 18, 55>>, <<-120, 130, 25, 22, 35>>,
                   <<60, 40, 18, 20, 20>>>>,
     gly |-> <<<<-80, 0, 25, 22, 45>>, <<80, 0, 25, 20, 45>>,
               <<-150, 150, 28, 24, 30>>>>,
     pro |-> <<<<-65, 140, 18, 18, 60>>, <<-80, -35, 16, 20, 25>>>>]

RECURSIVE PowerOfTwo(_)
PowerOfTwo(k) == IF k = 0 THEN 1 ELSE 2 * PowerOfTwo(k - 1)

\* exp(-x) in millionths for x >= 0 in thousandths: x = k ln 2 + r, the
\* series of exp(-r/2) to the third power, squared.
ExpNeg(x) ==
    LET ln2 == 693
        k == x \div ln2
        h == (x % ln2) \div 2
        half == Milli - h + (h * h) \div (2 * Milli) - (h * h * h) \div (6 * Micro)
        poly == (half * half) \div Milli
    IN IF k > 19 THEN 0 ELSE ((Micro \div PowerOfTwo(k)) * poly) \div Milli

\* -log(p) in thousandths for p in millionths, at most limit: the least x
\* whose exp(-x) is not above p.
RECURSIVE NegLogIter(_, _, _)
NegLogIter(p, lo, hi) ==
    IF lo >= hi THEN lo
    ELSE LET mid == (lo + hi) \div 2
         IN IF ExpNeg(mid) <= p THEN NegLogIter(p, lo, mid)
            ELSE NegLogIter(p, mid + 1, hi)

NegLog(p, limit) == NegLogIter(p, 0, limit)

\* One cell of _build_ramachandran_table, in millionths
RamaCell(components, phi_index, psi_index) ==
    LET term(c) ==
            LET d_phi2 == RamaBinCenter2(phi_index) - 2 * c[1]
                d_psi2 == RamaBinCenter2(psi_index) - 2 * c[2]
                \* 0.5 * (d_phi^2 + d_psi^2) in thousandths
                exponent == (d_phi2 * d_phi2 * 125) \div (c[3] * c[3])
                            + (d_psi2 * d_psi2 * 125) \div (c[4] * c[4])
            IN (c[5] * ExpNeg(exponent)) \div 100
        probability == RAMA_MIN_PROBABILITY
                       + SumOver(1..Len(components), [i \in 1..Len(components) |->
                                                        term(components[i])])
    IN IF probability < Micro THEN probability ELSE Micro

\* Lower and upper bin index and the weight of the upper one, in tenths
InterpolationIndices(angle) ==
    LET coord10 == (angle + 180) - 5
        lower == coord10 \div RAMA_BIN_SIZE
    IN [lower |-> lower % RAMA_BIN_COUNT,
        upper |-> ((lower % RAMA_BIN_COUNT) + 1) % RAMA_BIN_COUNT,
        fraction |-> coord10 - lower * RAMA_BIN_SIZE]

\* sorted(RAMACHANDRAN_TABLES), the classes the error message lists
RamaValid == <<"general", "gly", "pro">>

\* Variant: the full names of the classes are table keys as well.
RamaKeyOfFullNames(residue_type) ==
    LET key == Join(Lower(residue_type))
    IN CASE key = "glycine" -> "gly" [] key = "proline" -> "pro" [] OTHER -> key

\* residue_type.lower()
RamaKey(residue_type) == Join(Lower(residue_type))

RamachandranPenalty(phi, psi, residue_type) ==
    LET key == RamaKey(residue_type)
    IN IF key \notin DOMAIN RAMA_COMPONENTS
       THEN [status |-> "ValueError", detail |-> RamaValid, out |-> 0]
       ELSE LET components == RAMA_COMPONENTS[key]
                p == InterpolationIndices(WrapAngle(phi))
                q == InterpolationIndices(WrapAngle(psi))
                v00 == RamaCell(components, p.lower, q.lower)
                v10 == RamaCell(components, p.upper, q.lower)
                v01 == RamaCell(components, p.lower, q.upper)
                v11 == RamaCell(components, p.upper, q.upper)
                mixed == ((10 - p.fraction) * (10 - q.fraction) * (v00 \div 100)
                          + p.fraction * (10 - q.fraction) * (v10 \div 100)
                          + (10 - p.fraction) * q.fraction * (v01 \div 100)
                          + p.fraction * q.fraction * (v11 \div 100))
                prob == IF mixed > Micro THEN Micro
                        ELSE IF mixed < RAMA_MIN_PROBABILITY THEN RAMA_MIN_PROBABILITY
                        ELSE mixed
            IN [status |-> "ok", detail |-> <<>>, out |-> NegLog(prob, RAMA_MAX_PENALTY)]

RamaTypes ==
    {<<"g", "e", "n", "e", "r", "a", "l">>, <<"g", "l", "y">>, <<"p", "r", "o">>,
     <<"g", "l", "y", "c", "i", "n", "e">>, <<"p", "r", "o", "l", "i", "n", "e">>,
     <<"G", "L", "Y">>, <<"G", "e", "n", "e", "r", "a", "l">>, <<" ", "g", "l", "y">>,
     <<"x">>, <<>>}

RamaAngles == {-180, -130, -65, -60, -57, -40, 0, 50, 80, 140, 150, 175, 300}

CallRamachandranPenalty(phi, psi, residue_type) ==
    LET r == RamachandranPenalty(phi, psi, residue_type)
    IN /\ call.fn = "none"
       /\ call' = [fn |-> "ramachandran_penalty", args |-> <<phi, psi, residue_type>>,
                   status |-> r.status,
                   out |-> IF r.status = "ok" THEN r.out ELSE r.detail]
       /\ UNCHANGED <<core, nudge, requests, store>>

Rama == \E phi \in RamaAngles : \E psi \in RamaAngles : \E residue_type \in RamaTypes :
           CallRamachandranPenalty(phi, psi, residue_type)

----------------------------------------------------------------------------
(* Hydrogen bonds.  An entry of coords is a record whose optional fields      *)
(* (index, phi, psi, n, h, o) are sequences: empty when the field is absent   *)
(* or None, else the value (an index, an angle in whole degrees, the three    *)
(* coordinates of a point in tenths of an Angstrom).  gamma and the bonus are *)
(* counted in thousandths.                                                    *)

\* 3.0, in tenths
HBOND_MAX_DISTANCE == 30

HBOND_MIN_ANGLE == 120

\* 1.0, in thousandths
HBOND_GAMMA == 1000

HBOND_RESIDUE_CAP == 2

SsEntry(index, phi, psi, n, h, o) ==
    [index |-> index, phi |-> phi, psi |-> psi, n |-> n, h |-> h, o |-> o]

\* The D-H-A angle is at least HBOND_MIN_ANGLE: its cosine, the dot product
\* of H->D and H->A over the product of their lengths, is at most -1/2; the
\* angle of a vector of length zero is taken as 0.
AngleAtLeastMin(donor, hydrogen, acceptor) ==
    LET v_d == VecSub(donor, hydrogen)
        v_a == VecSub(acceptor, hydrogen)
        dot == VecDot(v_d, v_a)
    IN /\ VecDot(v_d, v_d) # 0
       /\ VecDot(v_a, v_a) # 0
       /\ dot < 0
       /\ 4 * dot * dot >= VecDot(v_d, v_d) * VecDot(v_a, v_a)

\* The two tests a donor and an acceptor pass to form a bond
BondGeometry(donor_pos, hydrogen_pos, acceptor_pos) ==
    /\ VecDot(VecSub(hydrogen_pos, acceptor_pos), VecSub(hydrogen_pos, acceptor_pos))
          <= HBOND_MAX_DISTANCE * HBOND_MAX_DISTANCE
    /\ AngleAtLeastMin(donor_pos, hydrogen_pos, acceptor_pos)

\* entries.sort(key=index): a stable insertion sort
RECURSIVE SortByIndex(_)
SortByIndex(entries) ==
    IF entries = <<>> THEN <<>>
    ELSE LET sorted == SortByIndex(SubSeq(entries, 1, Len(entries) - 1))
             e == entries[Len(entries)]
             before == {i \in 1..Len(sorted) : sorted[i].index <= e.index}
             k == Cardinality(before)
         IN SubSeq(sorted, 1, k) \o <<e>> \o SubSeq(sorted, k + 1, Len(sorted))

RECURSIVE SelectSeq2(_, _)
SelectSeq2(s, keep) ==
    IF s = <<>> THEN <<>>
    ELSE IF keep[1] THEN <<Head(s)>> \o SelectSeq2(Tail(s), Tail(keep))
    ELSE SelectSeq2(Tail(s), Tail(keep))

PrepareHbondGeometry(coords) ==
    IF \E i \in 1..Len(coords) : coords[i].index = <<>>
    THEN [status |-> "ValueError", entries |-> <<>>, donors |-> <<>>, acceptors |-> <<>>]
    ELSE LET items == [i \in 1..Len(coords) |->
                         [coords[i] EXCEPT !.index = coords[i].index[1]]]
         IN [status |-> "ok",
             entries |-> SortByIndex(items),
             donors |-> SelectSeq2(items, [i \in 1..Len(items) |->
                                             items[i].n # <<>> /\ items[i].h # <<>>]),
             acceptors |-> SelectSeq2(items, [i \in 1..Len(items) |-> items[i].o # <<>>])]

NoBonds(entries) ==
    [counts |-> [idx \in {entries[i].index : i \in 1..Len(entries)} |-> 0],
     contributions |-> EmptyDict, total_bonus |-> 0, seen_pairs |-> {}]

Min2(a, b) == IF a < b THEN a ELSE b

Max2(a, b) == IF a > b THEN a ELSE b

\* Variant: a residue takes any number of bonds.
HbondStepUncapped(acc, donor, acceptor, gamma, per_residue_cap) ==
    LET key == <<Min2(donor.index, acceptor.index), Max2(donor.index, acceptor.index)>>
    IN IF \/ donor.index = acceptor.index
          \/ key \in acc.seen_pairs
          \/ ~BondGeometry(donor.n, donor.h, acceptor.o)
       THEN acc
       ELSE LET counts1 == Put(acc.counts, donor.index, Get(acc.counts, donor.index, 0) + 1)
                counts2 == Put(counts1, acceptor.index, Get(counts1, acceptor.index, 0) + 1)
                share == gamma \div 2
                contrib1 == Put(acc.contributions, donor.index,
                                Get(acc.contributions, donor.index, 0) + share)
                contrib2 == Put(contrib1, acceptor.index,
                                Get(contrib1, acceptor.index, 0) + share)
            IN [counts |-> counts2, contributions |-> contrib2,
                total_bonus |-> acc.total_bonus + gamma,
                seen_pairs |-> acc.seen_pairs \cup {key}]

\* One pass of the inner loop body of hbond_bonus
HbondStep(acc, donor, acceptor, gamma, per_residue_cap) ==
    LET key == <<Min2(donor.index, acceptor.index), Max2(donor.index, acceptor.index)>>
    IN IF \/ donor.index = acceptor.index
          \/ key \in acc.seen_pairs
          \/ Get(acc.counts, donor.index, 0) >= per_residue_cap
          \/ Get(acc.counts, acceptor.index, 0) >= per_residue_cap
          \/ ~BondGeometry(donor.n, donor.h, acceptor.o)
       THEN acc
       ELSE LET counts1 == Put(acc.counts, donor.index, Get(acc.counts, donor.index, 0) + 1)
                counts2 == Put(counts1, acceptor.index, Get(counts1, acceptor.index, 0) + 1)
                share == gamma \div 2
                contrib1 == Put(acc.contributions, donor.index,
                                Get(acc.contributions, donor.index, 0) + share)
                contrib2 == Put(contrib1, acceptor.index,
                                Get(contrib1, acceptor.index, 0) + share)
            IN [counts |-> counts2, contributions |-> contrib2,
                total_bonus |-> acc.total_bonus + gamma,
                seen_pairs |-> acc.seen_pairs \cup {key}]

\* The two nested loops, pair k of Len(donors) * Len(acceptors) onwards
RECURSIVE HbondLoop(_, _, _, _, _, _)
HbondLoop(acc, donors, acceptors, k, gamma, per_residue_cap) ==
    IF k > Len(donors) * Len(acceptors) THEN acc
    ELSE LET d == ((k - 1) \div Len(acceptors)) + 1
             a == ((k - 1) % Len(acceptors)) + 1
         IN HbondLoop(HbondStep(acc, donors[d], acceptors[a], gamma, per_residue_cap),
                      donors, acceptors, k + 1, gamma, per_residue_cap)

\* hbond_bonus: the bonus and the per-residue contributions it returns, with
\* the counts and the pairs its loop has kept
HbondBonus(coords, gamma, per_residue_cap) ==
    LET none == [status |-> "ok", total |-> 0, contributions |-> EmptyDict,
                 counts |-> EmptyDict, pairs |-> {}]
        geometry == PrepareHbondGeometry(coords)
        acc == HbondLoop(NoBonds(geometry.entries), geometry.donors, geometry.acceptors,
                         1, gamma, per_residue_cap)
    IN IF gamma <= 0 \/ per_residue_cap <= 0 THEN none
       ELSE IF geometry.status # "ok" THEN [none EXCEPT !.status = geometry.status]
       ELSE IF geometry.donors = <<>> \/ geometry.acceptors = <<>> THEN none
       ELSE IF acc.total_bonus = 0 THEN none
       ELSE [status |-> "ok", total |-> acc.total_bonus,
             contributions |-> acc.contributions,
             counts |-> acc.counts, pairs |-> acc.seen_pairs]

\* The shapes of the entries handed to hbond_bonus, by number: a donor, a
\* donor with an acceptor 2.8 beyond the hydrogen of shape 3, a donor whose
\* acceptor is 2.8 from the hydrogen of shapes 1 and 2, acceptors at 2.8, at
\* 4.5, at 2.5 under a right angle and at 3.0 of that hydrogen, and an N alone.
HbondShapes ==
    << [n |-> <<0, 0, 0>>, h |-> <<0, 10, 0>>, o |-> <<>>],
       [n |-> <<0, 0, 0>>, h |-> <<0, 10, 0>>, o |-> <<0, 86, 0>>],
       [n |-> <<0, 48, 0>>, h |-> <<0, 58, 0>>, o |-> <<0, 38, 0>>],
       [n |-> <<>>, h |-> <<>>, o |-> <<0, 38, 0>>],
       [n |-> <<>>, h |-> <<>>, o |-> <<0, 55, 0>>],
       [n |-> <<>>, h |-> <<>>, o |-> <<25, 10, 0>>],
       [n |-> <<>>, h |-> <<>>, o |-> <<0, 40, 0>>],
       [n |-> <<0, 0, 0>>, h |-> <<>>, o |-> <<>>] >>

\* Entries per call
MaxResidues == 3

RECURSIVE SeqsUpTo(_, _)
SeqsUpTo(S, n) ==
    IF n = 0 THEN {<<>>}
    ELSE LET shorter == SeqsUpTo(S, n - 1)
         IN shorter \cup {Append(s, x) : s \in {t \in shorter : Len(t) = n - 1}, x \in S}

\* The entries of a list of shape numbers, indexed 0, 1, 2, ...
HbondEntries(shapes) ==
    [i \in 1..Len(shapes) |->
        SsEntry(<<i - 1>>, <<>>, <<>>, HbondShapes[shapes[i]].n,
                HbondShapes[shapes[i]].h, HbondShapes[shapes[i]].o)]

\* Lists of entries: every list of up to MaxResidues shapes, three donors
\* around one acceptor and three acceptors around one donor, two entries of
\* one index, an entry without index.
HbondInputs ==
    {HbondEntries(shapes) : shapes \in SeqsUpTo(DOMAIN HbondShapes, MaxResidues)}
    \cup {HbondEntries(<<4, 1, 1, 1>>), HbondEntries(<<1, 4, 7, 4, 5>>),
          HbondEntries(<<2, 3, 4, 7>>),
          <<SsEntry(<<0>>, <<>>, <<>>, <<0, 0, 0>>, <<0, 10, 0>>, <<>>),
            SsEntry(<<0>>, <<>>, <<>>, <<>>, <<>>, <<0, 38, 0>>)>>,
          <<SsEntry(<<5>>, <<>>, <<>>, <<>>, <<>>, <<0, 38, 0>>),
            SsEntry(<<2>>, <<>>, <<>>, <<0, 0, 0>>, <<0, 10, 0>>, <<>>),
            SsEntry(<<2>>, <<>>, <<>>, <<>>, <<>>, <<0, 40, 0>>)>>,
          <<SsEntry(<<>>, <<>>, <<>>, <<0, 0, 0>>, <<0, 10, 0>>, <<>>),
            SsEntry(<<1>>, <<>>, <<>>, <<>>, <<>>, <<0, 38, 0>>)>>}

\* gamma: the default, a half, none
HbondGammas == {HBOND_GAMMA, HBOND_GAMMA \div 2, 0}

CallHbondBonus(coords, gamma) ==
    LET r == HbondBonus(coords, gamma, HBOND_RESIDUE_CAP)
    IN /\ call.fn = "none"
       /\ call' = [fn |-> "hbond_bonus", args |-> <<coords, gamma>>,
                   status |-> r.status, out |-> r]
       /\ UNCHANGED <<core, nudge, requests, store>>

Hbond == \E coords \in HbondInputs : \E gamma \in HbondGammas : CallHbondBonus(coords, gamma)

HbondCall == call.fn = "hbond_bonus" /\ call.status = "ok"

\* Whether the entries of indices i and j pass the distance and angle tests
\* with one of them as donor and the other as acceptor
HbondQualifies(coords, i, j) ==
    \E a, b \in DOMAIN coords :
        /\ coords[a].index # <<>> /\ coords[b].index # <<>>
        /\ {coords[a].index[1], coords[b].index[1]} = {i, j}
        /\ coords[a].n # <<>> /\ coords[a].h # <<>> /\ coords[b].o # <<>>
        /\ BondGeometry(coords[a].n, coords[a].h, coords[b].o)

\* The bonds of a residue among the counted pairs
HbondBondsOf(pairs, idx) == Cardinality({key \in pairs : idx \in {key[1], key[2]}})

\* C22: hbond_bonus counts each unordered pair of residues at most once and
\* only when it passes the distance and angle tests, gives no residue more
\* than two bonds, returns gamma times the number of counted pairs, credits
\* each residue gamma/2 per bond (summing to the total), and returns 0 when no
\* entry is a donor or none is an acceptor.
C22_HbondBonusCountsCappedPairs ==
    HbondCall =>
        LET coords == call.args[1]
            gamma == call.args[2]
            out == call.out
            indices == {coords[k].index[1] : k \in {x \in DOMAIN coords : coords[x].index # <<>>}}
        IN /\ \A key \in out.pairs :
                 key[1] < key[2] /\ HbondQualifies(coords, key[1], key[2])
           /\ out.total = gamma * Cardinality(out.pairs)
           /\ \A idx \in indices :
                 /\ HbondBondsOf(out.pairs, idx) <= HBOND_RESIDUE_CAP
                 /\ Get(out.contributions, idx, 0)
                       = (gamma \div 2) * HbondBondsOf(out.pairs, idx)
           /\ DOMAIN out.contributions \subseteq indices
           /\ SumOver(DOMAIN out.contributions, out.contributions) = out.total
           /\ ( (\A k \in DOMAIN coords : coords[k].n = <<>> \/ coords[k].h = <<>>)
                \/ (\A k \in DOMAIN coords : coords[k].o = <<>>) ) => out.total = 0

\* Three acceptors within reach of one donor, of which two are counted
C22_Witness ==
    /\ HbondCall
    /\ call.args[2] = HBOND_GAMMA
    /\ Cardinality({j \in 1..4 : HbondQualifies(call.args[1], 0, j)}) = 3
    /\ HbondBondsOf(call.out.pairs, 0) = HBOND_RESIDUE_CAP
    /\ call.out.total = 2 * HBOND_GAMMA

----------------------------------------------------------------------------
(* Secondary structure labels (scoring.py); angles in degrees *)

HELIX_PHI_RANGE == <<-90, -30>>

HELIX_PSI_RANGE == <<-80, -10>>

HELIX_HBOND_RANGE == <<3, 5>>

STRAND_PHI_RANGE == <<-160, -90>>

STRAND_PSI_RANGE == <<90, 180>>

InRange(value, bounds) ==
    IF bounds[1] <= bounds[2]
    THEN bounds[1] <= value /\ value <= bounds[2]
    ELSE bounds[1] <= value \/ value <= bounds[2]

\* hbond_map of detect_ss_labels: for every index the indices bonded to it,
\* every donor against every acceptor, without cap
HbondMap(geometry) ==
    LET indices == {geometry.entries[i].index : i \in 1..Len(geometry.entries)}
                      \cup {geometry.donors[i].index : i \in 1..Len(geometry.donors)}
                      \cup {geometry.acceptors[i].index : i \in 1..Len(geometry.acceptors)}
        bonded(d, a) ==
            /\ geometry.donors[d].index # geometry.acceptors[a].index
            /\ BondGeometry(geometry.donors[d].n, geometry.donors[d].h, geometry.acceptors[a].o)
    IN [idx \in indices |->
          {geometry.acceptors[a].index :
              a \in {x \in 1..Len(geometry.acceptors) :
                       \E d \in 1..Len(geometry.donors) :
                           geometry.donors[d].index = idx /\ bonded(d, x)}}
          \cup
          {geometry.donors[d].index :
              d \in {x \in 1..Len(geometry.donors) :
                       \E a \in 1..Len(geometry.acceptors) :
                           geometry.acceptors[a].index = idx /\ bonded(x, a)}}]

\* Variant: the angles alone decide the label.
SsLabelByAngles(entry, hbond_map) ==
    IF entry.phi = <<>> \/ entry.psi = <<>> THEN "C"
    ELSE IF InRange(entry.phi[1], HELIX_PHI_RANGE) /\ InRange(entry.psi[1], HELIX_PSI_RANGE)
         THEN "H"
    ELSE IF InRange(entry.phi[1], STRAND_PHI_RANGE) /\ InRange(entry.psi[1], STRAND_PSI_RANGE)
         THEN "E"
    ELSE "C"

\* The label of one entry
SsLabel(entry, hbond_map) ==
    LET partners == Get(hbond_map, entry.index, {})
    IN IF entry.phi = <<>> \/ entry.psi = <<>> THEN "C"
       ELSE IF InRange(entry.phi[1], HELIX_PHI_RANGE) /\ InRange(entry.psi[1], HELIX_PSI_RANGE)
            THEN IF \E partner \in partners :
                       /\ HELIX_HBOND_RANGE[1] <= Abs(partner - entry.index)
                       /\ Abs(partner - entry.index) <= HELIX_HBOND_RANGE[2]
                 THEN "H" ELSE "C"
       ELSE IF InRange(entry.phi[1], STRAND_PHI_RANGE) /\ InRange(entry.psi[1], STRAND_PSI_RANGE)
            THEN IF \E partner \in partners : Abs(partner - entry.index) >= 2
                 THEN "E" ELSE "C"
       ELSE "C"

\* detect_ss_labels: one label per entry, in the order of the indices
DetectSsLabels(coords) ==
    LET geometry == PrepareHbondGeometry(coords)
        hbond_map == HbondMap(geometry)
    IN IF geometry.status # "ok" THEN [status |-> geometry.status, out |-> <<>>]
       ELSE [status |-> "ok",
             out |-> [i \in 1..Len(geometry.entries) |->
                        SsLabel(geometry.entries[i], hbond_map)]]

\* phi and psi of an entry: inside the helix ranges, on their edges, inside
\* the strand ranges, on their edges, outside both, and with one of them absent
SsAngles ==
    << [phi |-> <<-60>>, psi |-> <<-45>>], [phi |-> <<-90>>, psi |-> <<-10>>],
       [phi |-> <<-120>>, psi |-> <<130>>], [phi |-> <<-90>>, psi |-> <<90>>],
       [phi |-> <<-160>>, psi |-> <<180>>], [phi |-> <<20>>, psi |-> <<-45>>],
       [phi |-> <<-60>>, psi |-> <<100>>], [phi |-> <<-91>>, psi |-> <<-45>>],
       [phi |-> <<>>, psi |-> <<-45>>], [phi |-> <<-120>>, psi |-> <<>>] >>

\* The index of the second entry, the first having index 0
SsIndices == {1, 2, 3, 5, 6}

\* Two entries, the first a donor of index 0 and the second of shape `shape`
\* and index `index`, followed by an acceptor 3.0 from the hydrogen, of
\* index 4, when `third` holds; handed over in the order of the indices or in
\* the reverse order
SsEntries(angles1, angles2, index, shape, third, reversed) ==
    LET first == SsEntry(<<0>>, SsAngles[angles1].phi, SsAngles[angles1].psi,
                         HbondShapes[1].n, HbondShapes[1].h, HbondShapes[1].o)
        second == SsEntry(<<index>>, SsAngles[angles2].phi, SsAngles[angles2].psi,
                          HbondShapes[shape].n, HbondShapes[shape].h, HbondShapes[shape].o)
        last_entry == SsEntry(<<4>>, <<>>, <<>>,
                              HbondShapes[7].n, HbondShapes[7].h, HbondShapes[7].o)
        ordered == IF third THEN <<first, second, last_entry>> ELSE <<first, second>>
    IN IF reversed THEN [i \in 1..Len(ordered) |-> ordered[Len(ordered) + 1 - i]]
       ELSE ordered

SsInputs ==
    {SsEntries(a1, a2, index, shape, third, reversed) :
        a1 \in DOMAIN SsAngles, a2 \in {1, 3, 9}, index \in SsIndices,
        shape \in {4, 5, 6}, third \in BOOLEAN, reversed \in BOOLEAN}
    \cup {<<>>}

CallDetectSsLabels(coords) ==
    LET r == DetectSsLabels(coords)
    IN /\ call.fn = "none"
       /\ call' = [fn |-> "detect_ss_labels", args |-> <<coords>>,
                   status |-> r.status, out |-> r.out]
       /\ UNCHANGED <<core, nudge, requests, store>>

DetectSs == \E coords \in SsInputs : CallDetectSsLabels(coords)

SsCall == call.fn = "detect_ss_labels" /\ call.status = "ok"

\* The position of an entry in the returned labels: its rank among the indices
SsPosition(coords, k) ==
    1 + Cardinality({j \in DOMAIN coords : coords[j].index[1] < coords[k].index[1]})

\* An entry has a bonded partner whose index differs from its own by lo to hi
SsPartnerAt(coords, k, lo, hi) ==
    \E j \in DOMAIN coords :
        /\ HbondQualifies(coords, coords[k].index[1], coords[j].index[1])
        /\ coords[j].index[1] # coords[k].index[1]
        /\ lo <= Abs(coords[j].index[1] - coords[k].index[1])
        /\ Abs(coords[j].index[1] - coords[k].index[1]) <= hi

SsAnglesIn(entry, phi_range, psi_range) ==
    /\ entry.phi # <<>> /\ entry.psi # <<>>
    /\ phi_range[1] <= entry.phi[1] /\ entry.phi[1] <= phi_range[2]
    /\ psi_range[1] <= entry.psi[1] /\ entry.psi[1] <= psi_range[2]

\* The largest index of the entries, which no difference of two indices exceeds
SsLargestIndex(coords) ==
    CHOOSE m \in {coords[j].index[1] : j \in DOMAIN coords} :
        \A j \in DOMAIN coords : coords[j].index[1] <= m

\* C23: detect_ss_labels labels a residue H exactly when phi and psi are in
\* the helix ranges and a bonded partner is 3 to 5 indices away, E exactly
\* when phi and psi are in the strand ranges and a bonded partner is at least
\* 2 indices away, and C in every other case, an absent phi or psi included.
C23_LabelsFollowAnglesAndPartners ==
    SsCall =>
        LET coords == call.args[1]
        IN /\ Len(call.out) = Len(coords)
           /\ \A k \in DOMAIN coords :
                LET label == call.out[SsPosition(coords, k)]
                    helix == /\ SsAnglesIn(coords[k], HELIX_PHI_RANGE, HELIX_PSI_RANGE)
                             /\ SsPartnerAt(coords, k, 3, 5)
                    strand == /\ SsAnglesIn(coords[k], STRAND_PHI_RANGE, STRAND_PSI_RANGE)
                              /\ SsPartnerAt(coords, k, 2, SsLargestIndex(coords))
                IN /\ label = "H" <=> helix
                   /\ label = "E" <=> strand
                   /\ label = "C" <=> ~helix /\ ~strand
                   /\ (coords[k].phi = <<>> \/ coords[k].psi = <<>>) => label = "C"

\* A helix-range residue bonded 6 indices away only is Coil, while one bonded
\* 3 away is Helix and a strand-range residue bonded 2 away is Strand
C23_Witness ==
    /\ SsCall
    /\ Len(call.args[1]) = 2
    /\ \E k \in DOMAIN call.args[1] :
          /\ SsAnglesIn(call.args[1][k], HELIX_PHI_RANGE, HELIX_PSI_RANGE)
          /\ SsPartnerAt(call.args[1], k, 6, 6)
          /\ call.out[SsPosition(call.args[1], k)] = "C"
    /\ \E k \in DOMAIN call.args[1] :
          /\ SsAnglesIn(call.args[1][k], STRAND_PHI_RANGE, STRAND_PSI_RANGE)
          /\ call.args[1][k].index = <<6>>
          /\ call.out[SsPosition(call.args[1], k)] = "E"

----------------------------------------------------------------------------
(* The atoms/residues request of /api/score (api.py _legacy_score); energies *)
(* in millionths                                                             *)

\* SS_WEIGHTS.get(target, 0.0)
SS_WEIGHTS(target) == IF target \in {"H", "E"} THEN Micro ELSE 0

\* A ResidueState of the request; phi, psi, n, h and o are <<>> when absent
ResidueState(index, type, chi_angles, phi, psi, n, h, o) ==
    [index |-> index, type |-> type, chi_angles |-> chi_angles,
     phi |-> phi, psi |-> psi, n |-> n, h |-> h, o |-> o]

\* A dict built from the residues in turn: the last residue of an index wins
LastOfIndex(residues, idx) ==
    residues[CHOOSE k \in DOMAIN residues :
                /\ residues[k].index = idx
                /\ \A j \in DOMAIN residues : residues[j].index = idx => j <= k]

\* ss_entries: n and h are kept together or not at all
SsEntriesOf(residues) ==
    [k \in DOMAIN residues |->
        LET donor == residues[k].n # <<>> /\ residues[k].h # <<>>
        IN SsEntry(<<residues[k].index>>, residues[k].phi, residues[k].psi,
                   IF donor THEN residues[k].n ELSE <<>>,
                   IF donor THEN residues[k].h ELSE <<>>,
                   residues[k].o)]

\* Variant: the bonus is charged.
LegacyTotalChargingBonds(clash, rotamer_total, ss_total, compact, hbond_total) ==
    1000 * Micro - clash - rotamer_total - ss_total - compact - hbond_total

LegacyTotal(clash, rotamer_total, ss_total, compact, hbond_total) ==
    1000 * Micro - clash - rotamer_total - ss_total - compact + hbond_total

\* _legacy_score: the score, the terms and the per-residue entries by index
LegacyScore(request) ==
    LET atoms == request.atoms
        residues == request.residues
        clash == ClashEnergyOutcome(atoms, 200, 8000)
        positions == [i \in 1..Len(atoms) |-> <<atoms[i].x, atoms[i].y, atoms[i].z>>]
        compact == 100 * CompactnessPenalty(positions, ALPHA_RG)
        indices == {residues[k].index : k \in DOMAIN residues}
        chi_map == [idx \in indices |-> LastOfIndex(residues, idx).chi_angles]
        residue_types == [idx \in indices |-> LastOfIndex(residues, idx).type]
        penalty == [k \in DOMAIN residues |->
                       RotamerPenalty(residues[k].index, chi_map, residue_types)]
        rotamer_total == SumOver(DOMAIN residues,
                                 [k \in DOMAIN residues |-> 100 * penalty[k].out])
        ss_entries == SsEntriesOf(residues)
        hbond == HbondBonus(ss_entries, HBOND_GAMMA, HBOND_RESIDUE_CAP)
        hbond_total == Milli * hbond.total
        labels == DetectSsLabels(ss_entries).out
        target_ss == request.target_ss
        ss_penalty == [idx \in 0..(Len(target_ss) - 1) |->
                          LET actual == IF idx < Len(labels) THEN labels[idx + 1] ELSE "C"
                          IN IF actual # target_ss[idx + 1]
                             THEN SS_WEIGHTS(target_ss[idx + 1]) ELSE 0]
        ss_total == SumOver(DOMAIN ss_penalty, ss_penalty)
        keys == indices \cup DOMAIN hbond.contributions \cup DOMAIN ss_penalty
        per_residue ==
            [i \in keys |->
                [i |-> i, clash |-> 0, rama |-> 0,
                 rotamer |-> IF i \in indices
                             THEN 100 * RotamerPenalty(i, chi_map, residue_types).out ELSE 0,
                 ss |-> Get(ss_penalty, i, 0), compact |-> 0,
                 hbond |-> Milli * Get(hbond.contributions, i, 0)]]
        failed == \/ clash.status # "ok"
                  \/ \E k \in DOMAIN residues : penalty[k].status # "ok"
    IN IF failed
       THEN [status |-> "ValueError", score |-> 0, terms |-> EmptyDict,
             per_residue |-> EmptyDict]
       ELSE [status |-> "ok",
             score |-> LegacyTotal(clash.out, rotamer_total, ss_total, compact, hbond_total),
             terms |-> [clash |-> clash.out, rama |-> 0, rotamer |-> rotamer_total,
                        ss |-> ss_total, compact |-> compact, hbond |-> hbond_total],
             per_residue |-> per_residue]

\* Atoms of a request: none, two carbons 3.0 apart, three atoms, an element
\* without a radius
LegacyAtoms ==
    << <<>>,
       <<AtomPayload("C", <<0, 0, 0>>), AtomPayload("C", <<30, 0, 0>>)>>,
       <<AtomPayload("C", <<0, 0, 0>>), AtomPayload("N", <<10, 0, 0>>),
         AtomPayload("O", <<20, 20, 0>>)>>,
       <<AtomPayload("X", <<0, 0, 0>>)>> >>

\* Type and chi angles of the first residue: no chi angle expected, one chi
\* angle 5 degrees outside every window, one chi angle too few
LegacySideChains ==
    << [type |-> <<"A", "L", "A">>, chi_angles |-> <<>>],
       [type |-> <<"S", "E", "R">>, chi_angles |-> <<140>>],
       [type |-> <<"L", "E", "U">>, chi_angles |-> <<60>>] >>

\* Two residues: a donor of index `first`, and `gap` indices further a
\* residue of shape `shape`
LegacyResidues(first, gap, angles1, angles2, shape, side_chain) ==
    << ResidueState(first, LegacySideChains[side_chain].type,
                    LegacySideChains[side_chain].chi_angles,
                    SsAngles[angles1].phi, SsAngles[angles1].psi,
                    HbondShapes[1].n, HbondShapes[1].h, HbondShapes[1].o),
       ResidueState(first + gap, <<"G", "L", "Y">>, <<>>,
                    SsAngles[angles2].phi, SsAngles[angles2].psi,
                    HbondShapes[shape].n, HbondShapes[shape].h, HbondShapes[shape].o) >>

\* The residue lists of a request: the pairs, their first residues alone, none
LegacyResidueLists ==
    LET pairs == {LegacyResidues(first, gap, a1, a2, shape, side_chain) :
                     first \in {0, 1}, gap \in {1, 3}, a1 \in {1, 3}, a2 \in {1, 9},
                     shape \in {4, 5}, side_chain \in DOMAIN LegacySideChains}
    IN pairs \cup {SubSeq(pair, 1, 1) : pair \in pairs} \cup {<<>>}

\* Longest target_ss
MaxTarget == 2

\* target_ss: every string of up to MaxTarget labels, and one with a
\* character that is no label
LegacyTargets == SeqsUpTo({"H", "E", "C"}, MaxTarget) \cup {<<"X", "H">>}

\* api_score answering a request that carries atoms, residues or target_ss
CallLegacyScore(request) ==
    LET r == LegacyScore(request)
    IN /\ call.fn = "none"
       /\ state' = InitialiseWeights(state)
       /\ call' = [fn |-> "legacy_score", args |-> <<request>>,
                   status |-> r.status, out |-> r]
       /\ UNCHANGED <<result, ops, last, protocol, pending, full_calls, nudge, requests, store>>

Legacy ==
    \E a \in DOMAIN LegacyAtoms : \E residues \in LegacyResidueLists :
        \E target_ss \in LegacyTargets :
            CallLegacyScore([atoms |-> LegacyAtoms[a], residues |-> residues,
                             target_ss |-> target_ss])

LegacyCall == call.fn = "legacy_score" /\ call.status = "ok"

\* The label detect_ss_labels gives the residue of index i of a request, Coil
\* when the request has no residue of that index
DetectedLabelOf(request, i) ==
    LET entries == SsEntriesOf(request.residues)
        labels == DetectSsLabels(entries).out
    IN IF \E k \in DOMAIN entries : entries[k].index = <<i>>
       THEN labels[SsPosition(entries, CHOOSE k \in DOMAIN entries : entries[k].index = <<i>>)]
       ELSE "C"

\* C24: for every position i of target_ss the ss penalty recorded for residue
\* index i is the weight of target_ss[i] when the detected label of the
\* residue with index i differs from it and 0 when it matches, a residue
\* without detected label counting as Coil; the ss term is their sum.
C24_PenaltyComparesLabelOfResidueIndex ==
    LegacyCall =>
        LET request == call.args[1]
            target_ss == request.target_ss
            positions == 0..(Len(target_ss) - 1)
            expected == [i \in positions |->
                            IF DetectedLabelOf(request, i) # target_ss[i + 1]
                            THEN SS_WEIGHTS(target_ss[i + 1]) ELSE 0]
        IN /\ \A i \in positions : call.out.per_residue[i].ss = expected[i]
           /\ call.out.terms.ss = SumOver(positions, expected)

\* C25: the score of an atoms/residues request is 1000 - clash - rotamer - ss
\* - compact + hbond of the returned terms.
C25_ScoreIsThousandMinusPenaltiesPlusBonus ==
    LegacyCall =>
        call.out.score = 1000 * Micro - call.out.terms.clash - call.out.terms.rotamer
                           - call.out.terms.ss - call.out.terms.compact
                           + call.out.terms.hbond

\* A request with a clash, a rotamer penalty, a mismatch, a compactness
\* penalty and a hydrogen bond at once
C25_Witness ==
    /\ LegacyCall
    /\ call.out.terms.clash > 0
    /\ call.out.terms.rotamer > 0
    /\ call.out.terms.ss > 0
    /\ call.out.terms.compact > 0
    /\ call.out.terms.hbond = Milli * HBOND_GAMMA
    /\ call.out.score < 1000 * Micro

\* Calls of the remaining energy term evaluators
NextTerms == Rama \/ Hbond \/ DetectSs \/ Legacy

SpecTerms == InitCalls /\ [][NextTerms]_vars

RamaCall == call.fn = "ramachandran_penalty"

----------------------------------------------------------------------------
(* Submissions and leaderboard (submissions.py, routes_submit.py).  A        *)
(* leaderboard file is the sequence of its entries; the timestamp strings    *)
(* are numbered in their string order; the checksum of an entry is stood for *)
(* by the coordinates it is computed from; terms and client version, which   *)
(* no step reads back, are left out of the entries.                          *)

\* The level files of the levels directory: level id -> sequence
Levels == [level_0001 |-> <<"A", "G">>, level_0002 |-> <<"G">>]

\* load_level: whether the level file exists
LevelExists(level_id) == level_id \in DOMAIN Levels

Entry(ts, level_id, player_name, score, elapsed_ms, checksum) ==
    [ts |-> ts, level_id |-> level_id, player_name |-> player_name, score |-> score,
     elapsed_ms |-> elapsed_ms, checksum |-> checksum]

\* read_entries(path_for_level(level_id)): no file, no entries
ReadEntries(files, level_id) == Get(files, level_id, <<>>)

\* Variant: an entry without elapsed_ms sorts as one with elapsed_ms 0.
SortKeyLessMissingAsZero(a, b) ==
    LET elapsed(item) == IF item.elapsed_ms = <<>> THEN 0 ELSE item.elapsed_ms[1]
    IN \/ a.score < b.score
       \/ /\ a.score = b.score
          /\ \/ elapsed(a) < elapsed(b)
             \/ elapsed(a) = elapsed(b) /\ a.ts < b.ts

\* sort_key(a) < sort_key(b): (score, elapsed_ms or infinity, ts) as tuples
SortKeyLess(a, b) ==
    LET elapsed_less == /\ a.elapsed_ms # <<>>
                        /\ (b.elapsed_ms = <<>> \/ a.elapsed_ms[1] < b.elapsed_ms[1])
        elapsed_equal == a.elapsed_ms = b.elapsed_ms
    IN \/ a.score < b.score
       \/ /\ a.score = b.score
          /\ \/ elapsed_less
             \/ elapsed_equal /\ a.ts < b.ts

\* sorted(entries, key=sort_key): stable
RECURSIVE SortEntries(_)
SortEntries(entries) ==
    IF entries = <<>> THEN <<>>
    ELSE LET sorted == SortEntries(SubSeq(entries, 1, Len(entries) - 1))
             e == entries[Len(entries)]
             k == Cardinality({i \in 1..Len(sorted) : ~SortKeyLess(e, sorted[i])})
         IN SubSeq(sorted, 1, k) \o <<e>> \o SubSeq(sorted, k + 1, Len(sorted))

LeaderboardItem(rank, entry) ==
    [rank |-> rank, player_name |-> entry.player_name, score |-> entry.score,
     elapsed_ms |-> entry.elapsed_ms, ts |-> entry.ts]

\* GET /api/leaderboard
Leaderboard(files, level_id, limit, offset) ==
    IF ~LevelExists(level_id)
    THEN [status_code |-> 404, code |-> "level_not_found", items |-> <<>>, total_entries |-> 0]
    ELSE LET entries == ReadEntries(files, level_id)
             sorted_entries == SortEntries(entries)
             stop == IF offset + limit < Len(sorted_entries) THEN offset + limit
                     ELSE Len(sorted_entries)
             sliced == SubSeq(sorted_entries, offset + 1, stop)
         IN [status_code |-> 200, code |-> "",
             items |-> [i \in 1..Len(sliced) |-> LeaderboardItem(offset + i, sliced[i])],
             total_entries |-> Len(entries)]

\* Entries of earlier submissions to level_0001: scores 190.0, 200.0 and
\* 205.0, elapsed_ms absent, 1500, 2000 and 2500, two timestamps
StoredEntries ==
    << Entry(1, "level_0001", "Dave", 190 * Unit, <<>>, 1),
       Entry(1, "level_0001", "Bob", 200 * Unit, <<1500>>, 2),
       Entry(2, "level_0001", "Eve", 200 * Unit, <<1500>>, 3),
       Entry(1, "level_0001", "Alice", 200 * Unit, <<2500>>, 4),
       Entry(1, "level_0001", "Frank", 200 * Unit, <<>>, 5),
       Entry(2, "level_0001", "Grace", 200 * Unit, <<>>, 6),
       Entry(2, "level_0001", "Carol", 205 * Unit, <<2000>>, 7) >>

\* Most entries in a leaderboard file at the start
MaxEntries == 3

\* The leaderboard files at the start: every list of up to MaxEntries stored
\* entries, in any order
InitLeaderboard ==
    /\ state = FromResidues(<<>>, SCORE_WEIGHTS)
    /\ result = NoResult
    /\ ops = 0
    /\ last = NoOp
    /\ protocol = "fresh"
    /\ pending = {}
    /\ full_calls = 0
    /\ call = NoCall
    /\ nudge = NoNudge
    /\ requests = NoRequests
    /\ \E chosen \in SeqsUpTo(DOMAIN StoredEntries, MaxEntries) :
          store = [NoStore EXCEPT !.files =
                      [level_id \in {"level_0001"} |->
                          [i \in 1..Len(chosen) |-> StoredEntries[chosen[i]]]]]

\* limit (1..200, default 50) and offset (from 0) of a query
LeaderboardLimits == {1, 2, 50}

LeaderboardOffsets == {0, 1, 3}

CallLeaderboard(level_id, limit, offset) ==
    /\ call.fn = "none"
    /\ call' = [fn |-> "leaderboard", args |-> <<level_id, limit, offset>>,
                status |-> "ok",
                out |-> Leaderboard(store.files, level_id, limit, offset)]
    /\ UNCHANGED <<core, nudge, requests, store>>

Board ==
    \E level_id \in DOMAIN Levels \cup {"missing"} :
        \E limit \in LeaderboardLimits : \E offset \in LeaderboardOffsets :
            CallLeaderboard(level_id, limit, offset)

NextLeaderboard == Board

SpecLeaderboard == InitLeaderboard /\ [][NextLeaderboard]_vars

LeaderboardCall == call.fn = "leaderboard" /\ call.out.status_code = 200

\* The order of the leaderboard between two entries: b is not to come before a
RanksNoLater(a, b) ==
    IF a.score # b.score THEN a.score < b.score
    ELSE IF a.elapsed_ms # b.elapsed_ms
         THEN IF a.elapsed_ms = <<>> THEN FALSE
              ELSE IF b.elapsed_ms = <<>> THEN TRUE
              ELSE a.elapsed_ms[1] < b.elapsed_ms[1]
    ELSE a.ts <= b.ts

\* The ways to list n entries
Orderings(n) == {p \in [1..n -> 1..n] : \A i, j \in 1..n : p[i] = p[j] => i = j}

\* C26: the leaderboard lists the stored entries by ascending score, then
\* ascending elapsed_ms with a missing one after every present one, then
\* ascending timestamp; the items are the slice [offset, offset + limit) of
\* that order with ranks offset + 1, offset + 2, ..., and total_entries is the
\* number of stored entries whatever limit and offset are.
C26_LeaderboardIsSortedSlice ==
    LeaderboardCall =>
        LET entries == ReadEntries(store.files, call.args[1])
            limit == call.args[2]
            offset == call.args[3]
            n == Len(entries)
            items == call.out.items
            rest == IF n > offset THEN n - offset ELSE 0
        IN /\ call.out.total_entries = n
           /\ Len(items) = IF limit < rest THEN limit ELSE rest
           /\ \E p \in Orderings(n) :
                 /\ \A i, j \in 1..n : i < j => RanksNoLater(entries[p[i]], entries[p[j]])
                 /\ \A k \in 1..Len(items) :
                       items[k] = LeaderboardItem(offset + k, entries[p[offset + k]])

\* Three stored entries of one score, the one without elapsed_ms stored
\* first, listed from the second rank on
C26_Witness ==
    /\ LeaderboardCall
    /\ call.args[3] = 1
    /\ Len(call.out.items) = 2
    /\ call.out.total_entries = 3
    /\ LET entries == ReadEntries(store.files, call.args[1])
       IN /\ entries[1].elapsed_ms = <<>>
          /\ entries[2].elapsed_ms # <<>>
          /\ \A i \in 1..3 : entries[i].score = entries[1].score
          /\ call.out.items[2].elapsed_ms = <<>>
          /\ call.out.items[2].rank = 3

\* Bond lengths and the least distance inside a residue, in hundredths of an
\* Angstrom; coordinates are whole Angstroms
BOND_LIMITS ==
    [n_ca |-> <<120, 160>>, ca_c |-> <<120, 170>>, c_n_next |-> <<80, 200>>]

MIN_INTRA_RES_DISTANCE == 60

\* A component of a coordinate of a request: <<v>> for the number v, <<>> for
\* a value that is not finite (nan, inf)
IsFinite(component) == component # <<>>

\* normalise_coords
NormaliseCoords(coords) ==
    IF \E index \in 1..Len(coords) :
          \/ Len(coords[index]) # 3
          \/ \E k \in 1..Len(coords[index]) : ~IsFinite(coords[index][k])
    THEN [status |-> "ValueError", coords |-> <<>>]
    ELSE [status |-> "ok",
          coords |-> [index \in 1..Len(coords) |->
                         <<coords[index][1][1], coords[index][2][1], coords[index][3][1]>>]]

\* ensure_payload_shapes
EnsurePayloadShapes(sequence, coords) ==
    IF sequence = <<>> THEN [status |-> "ValueError", coords |-> <<>>]
    ELSE IF Len(coords) # Len(sequence) * 3 THEN [status |-> "ValueError", coords |-> <<>>]
    ELSE NormaliseCoords(coords)

\* Whether low <= _dist(a, b) <= high, the limits in hundredths
DistWithin(a, b, limits) ==
    LET d_sq == VecDot(VecSub(a, b), VecSub(a, b)) * Unit
    IN limits[1] * limits[1] <= d_sq /\ d_sq <= limits[2] * limits[2]

\* validate_backbone_bonds: the errors of residue res_idx, in the order found
BackboneErrors(sequence, coords, res_idx) ==
    LET n == coords[res_idx * 3 + 1]
        ca == coords[res_idx * 3 + 2]
        c == coords[res_idx * 3 + 3]
    IN (IF DistWithin(n, ca, BOND_LIMITS.n_ca) THEN <<>> ELSE <<"N-CA out of range">>)
       \o (IF DistWithin(ca, c, BOND_LIMITS.ca_c) THEN <<>> ELSE <<"CA-C out of range">>)
       \o (IF res_idx + 1 < Len(sequence)
              /\ ~DistWithin(c, coords[(res_idx + 1) * 3 + 1], BOND_LIMITS.c_n_next)
           THEN <<"C-N(next) out of range">> ELSE <<>>)

\* validate_min_distance: the errors of residue res_idx
MinDistanceErrors(coords, res_idx) ==
    LET atoms == SubSeq(coords, res_idx * 3 + 1, res_idx * 3 + 3)
        close(i, j) ==
            VecDot(VecSub(atoms[i], atoms[j]), VecSub(atoms[i], atoms[j])) * Unit
               < MIN_INTRA_RES_DISTANCE * MIN_INTRA_RES_DISTANCE
        error(i, j) == IF close(i, j) THEN <<"intra-residue distance too small">> ELSE <<>>
    IN error(1, 2) \o error(1, 3) \o error(2, 3)

RECURSIVE Concat(_, _, _)
Concat(f, from, to) == IF from > to THEN <<>> ELSE f[from] \o Concat(f, from + 1, to)

\* validate_geometry
ValidateGeometry(sequence, coords) ==
    LET last_idx == Len(sequence) - 1
    IN Concat([res_idx \in 0..last_idx |-> BackboneErrors(sequence, coords, res_idx)],
              0, last_idx)
       \o Concat([res_idx \in 0..last_idx |-> MinDistanceErrors(coords, res_idx)],
                 0, last_idx)

\* rescore: score_total of the State built from the submission
RescoreSubmission(sequence, coords) == ScoreTotal(BuildState(sequence, coords)).result

\* sanitise_player_name, of a name handed over as characters, <<>> for none
SanitisePlayerName(name) ==
    LET candidate == Strip(name)
    IN IF candidate = <<>> THEN "Anonymous"
       ELSE Join(SubSeq(candidate, 1, IF Len(candidate) < 64 THEN Len(candidate) ELSE 64))

SubmitRequest(level_id, sequence, coords, elapsed_ms, player_name) ==
    [level_id |-> level_id, sequence |-> sequence, coords |-> coords,
     elapsed_ms |-> elapsed_ms, player_name |-> player_name]

NoEntry == Entry(0, "", "", 0, <<>>, <<>>)

SubmitResponse(status_code, code, score, rank, entries) ==
    [status_code |-> status_code, code |-> code, score |-> score, rank |-> rank,
     entries |-> entries]

Rejection(status_code, code) ==
    [response |-> SubmitResponse(status_code, code, 0, 0, 0), entry |-> NoEntry]

\* Variant: the geometry is not looked at.
CheckSubmissionWithoutGeometry(request, timestamp) ==
    IF ~LevelExists(request.level_id) THEN Rejection(404, "level_not_found")
    ELSE IF request.sequence # Levels[request.level_id]
    THEN Rejection(400, "sequence_mismatch")
    ELSE LET shaped == EnsurePayloadShapes(request.sequence, request.coords)
         IN IF shaped.status # "ok" THEN Rejection(400, "invalid_payload")
            ELSE [response |-> SubmitResponse(201, "", 0, 0, 0),
                  entry |-> Entry(timestamp, request.level_id,
                                  SanitisePlayerName(request.player_name), 0,
                                  request.elapsed_ms, shaped.coords)]

\* submit_structure up to make_submission_entry: the rejection, or the entry
\* to be stored, stamped with the time the clock shows
CheckSubmission(request, timestamp) ==
    IF ~LevelExists(request.level_id) THEN Rejection(404, "level_not_found")
    ELSE IF request.sequence # Levels[request.level_id]
    THEN Rejection(400, "sequence_mismatch")
    ELSE LET shaped == EnsurePayloadShapes(request.sequence, request.coords)
         IN IF shaped.status # "ok" THEN Rejection(400, "invalid_payload")
            ELSE IF ValidateGeometry(request.sequence, shaped.coords) # <<>>
            THEN Rejection(400, "invalid_geometry")
            ELSE IF request.elapsed_ms # <<>> /\ request.elapsed_ms[1] < 0
            THEN Rejection(400, "invalid_elapsed")
            ELSE LET score_result == RescoreSubmission(request.sequence, shaped.coords)
                 IN [response |-> SubmitResponse(201, "", score_result.score, 0, 0),
                     entry |-> Entry(timestamp, request.level_id,
                                     SanitisePlayerName(request.player_name),
                                     score_result.score, request.elapsed_ms,
                                     shaped.coords)]

\* compute_rank: the first place in the order whose entry has the target's
\* checksum, ts, player_name and score; 0 when there is none
ComputeRank(entries, target) ==
    LET sorted == SortEntries(entries)
        matches == {index \in 1..Len(sorted) :
                       /\ sorted[index].checksum = target.checksum
                       /\ sorted[index].ts = target.ts
                       /\ sorted[index].player_name = target.player_name
                       /\ sorted[index].score = target.score}
    IN IF matches = {} THEN 0 ELSE MinOf(matches)

\* The requests being answered at once
Handlers == {1, 2}

\* What the clock shows when an entry is made: the same time or a later one
Timestamps == {1, 2}

Handler(pc, request, entry, entries, response) ==
    [pc |-> pc, request |-> request, entry |-> entry, entries |-> entries,
     response |-> response]

\* POST /api/submit arrives at handler i, which checks it, rescores it and
\* makes its entry
SubmitStructure(i, request, timestamp) ==
    LET checked == CheckSubmission(request, timestamp)
    IN /\ i \notin DOMAIN requests
       /\ requests' = Put(requests, i,
                          Handler(IF checked.response.status_code = 201
                                  THEN "persist" ELSE "done",
                                  request, checked.entry, <<>>, checked.response))
       /\ UNCHANGED <<core, call, nudge, store>>

\* persist_submission: _get_lock, creating the lock of the level when it has none
GetLock(i) ==
    LET level_id == requests[i].request.level_id
    IN /\ i \in DOMAIN requests
       /\ requests[i].pc = "persist"
       /\ store' = IF level_id \in DOMAIN store.locks THEN store
                   ELSE [store EXCEPT !.locks = Put(@, level_id, 0)]
       /\ requests' = [requests EXCEPT ![i].pc = "lock"]
       /\ UNCHANGED <<core, call, nudge>>

\* Variant: the lock is taken whoever holds it.
AcquireHeldLock(i) ==
    LET level_id == requests[i].request.level_id
    IN /\ i \in DOMAIN requests
       /\ requests[i].pc = "lock"
       /\ store' = [store EXCEPT !.locks[level_id] = i]
       /\ requests' = [requests EXCEPT ![i].pc = "read"]
       /\ UNCHANGED <<core, call, nudge>>

\* with lock: entered when no handler holds the lock of the level
Acquire(i) ==
    LET level_id == requests[i].request.level_id
    IN /\ i \in DOMAIN requests
       /\ requests[i].pc = "lock"
       /\ store.locks[level_id] = 0
       /\ store' = [store EXCEPT !.locks[level_id] = i]
       /\ requests' = [requests EXCEPT ![i].pc = "read"]
       /\ UNCHANGED <<core, call, nudge>>

\* entries = read_entries(path)
Read(i) ==
    /\ i \in DOMAIN requests
    /\ requests[i].pc = "read"
    /\ requests' = [requests EXCEPT
                       ![i].pc = "append",
                       ![i].entries = ReadEntries(store.files, requests[i].request.level_id)]
    /\ UNCHANGED <<core, call, nudge, store>>

\* append_jsonl(path, entry)
AppendJsonl(i) ==
    LET level_id == requests[i].request.level_id
    IN /\ i \in DOMAIN requests
       /\ requests[i].pc = "append"
       /\ store' = [store EXCEPT !.files =
                       Put(@, level_id, Append(ReadEntries(@, level_id), requests[i].entry))]
       /\ requests' = [requests EXCEPT ![i].pc = "rank"]
       /\ UNCHANGED <<core, call, nudge>>

\* entries.append, compute_rank, len, the end of the with block and the response
Return(i) ==
    LET level_id == requests[i].request.level_id
        entries == Append(requests[i].entries, requests[i].entry)
    IN /\ i \in DOMAIN requests
       /\ requests[i].pc = "rank"
       /\ store' = [store EXCEPT !.locks[level_id] = 0]
       /\ requests' = [requests EXCEPT
                          ![i].pc = "done",
                          ![i].entries = entries,
                          ![i].response.rank = ComputeRank(entries, requests[i].entry),
                          ![i].response.entries = Len(entries)]
       /\ UNCHANGED <<core, call, nudge>>

Point(x, y, z) == <<<<x>>, <<y>>, <<z>>>>

\* Backbones of two residues: stretched, folded, with the first CA 2.0 from
\* its N, with the first C on its N; and the stretched backbone of one residue
Stretched ==
    <<Point(0, 0, 0), Point(1, 1, 0), Point(2, 2, 0),
      Point(3, 2, 0), Point(4, 3, 0), Point(5, 4, 0)>>

Folded ==
    <<Point(0, 0, 0), Point(1, 1, 0), Point(2, 2, 0),
      Point(2, 2, 1), Point(1, 2, 2), Point(0, 2, 3)>>

LongBond ==
    <<Point(0, 0, 0), Point(2, 0, 0), Point(3, 1, 0),
      Point(4, 1, 0), Point(5, 2, 0), Point(6, 3, 0)>>

Collapsed ==
    <<Point(0, 0, 0), Point(1, 1, 0), Point(0, 0, 0),
      Point(1, 0, 0), Point(2, 1, 0), Point(3, 2, 0)>>

\* The submissions sent: accepted ones of one player with the two backbones
\* and elapsed_ms absent, 100 and 200, of an unnamed and of a padded player,
\* to the second level; then one to a level that does not exist, with another
\* sequence, with a point too few, with a point of two components, with a
\* component that is not finite, and with the two backbones out of range
SubmitRequests ==
    << SubmitRequest("level_0001", <<"A", "G">>, Stretched, <<>>, <<"A", "n", "n">>),
       SubmitRequest("level_0001", <<"A", "G">>, Stretched, <<100>>, <<"A", "n", "n">>),
       SubmitRequest("level_0001", <<"A", "G">>, Stretched, <<200>>, <<"A", "n", "n">>),
       SubmitRequest("level_0001", <<"A", "G">>, Folded, <<100>>, <<"A", "n", "n">>),
       SubmitRequest("level_0001", <<"A", "G">>, Folded, <<200>>, <<"A", "n", "n">>),
       SubmitRequest("level_0001", <<"A", "G">>, Stretched, <<>>, <<>>),
       SubmitRequest("level_0001", <<"A", "G">>, Folded, <<100>>, <<" ", "B", "o", " ">>),
       SubmitRequest("level_0002", <<"G">>, SubSeq(Stretched, 1, 3), <<100>>, <<"A", "n", "n">>),
       SubmitRequest("missing", <<"A", "G">>, Stretched, <<100>>, <<"A", "n", "n">>),
       SubmitRequest("level_0001", <<"G", "G">>, Stretched, <<100>>, <<"A", "n", "n">>),
       SubmitRequest("level_0001", <<"A", "G">>, SubSeq(Stretched, 1, 5), <<100>>, <<"A", "n", "n">>),
       SubmitRequest("level_0001", <<"A", "G">>,
                     [Stretched EXCEPT ![4] = <<<<3>>, <<2>>>>], <<100>>, <<"A", "n", "n">>),
       SubmitRequest("level_0001", <<"A", "G">>,
                     [Stretched EXCEPT ![2] = <<<<1>>, <<>>, <<0>>>>], <<100>>, <<"A", "n", "n">>),
       SubmitRequest("level_0001", <<"A", "G">>, LongBond, <<100>>, <<"A", "n", "n">>),
       SubmitRequest("level_0001", <<"A", "G">>, Collapsed, <<>>, <<>>) >>

Submit ==
    \E i \in Handlers : \E r \in DOMAIN SubmitRequests : \E timestamp \in Timestamps :
        SubmitStructure(i, SubmitRequests[r], timestamp)

Locks == \E i \in Handlers : GetLock(i)

Enters == \E i \in Handlers : Acquire(i)

Reads == \E i \in Handlers : Read(i)

Appends == \E i \in Handlers : AppendJsonl(i)

Returns == \E i \in Handlers : Return(i)

NextSubmit == Submit \/ Locks \/ Enters \/ Reads \/ Appends \/ Returns

SpecSubmit == InitCalls /\ [][NextSubmit]_vars

\* Handler i has answered with 201
Accepted(i) ==
    i \in DOMAIN requests /\ requests[i].pc = "done"
       /\ requests[i].response.status_code = 201

\* The coordinates of a request, when each is three finite components
Triples(coords) ==
    [index \in 1..Len(coords) |->
        <<coords[index][1][1], coords[index][2][1], coords[index][3][1]>>]

\* C27: a submission is appended only after all checks pass: an unknown level
\* is answered 404 level_not_found, a sequence other than the level's 400, a
\* coordinate count other than 3 x sequence length or a component that is not
\* finite 400 invalid_payload, backbone geometry out of range 400
\* invalid_geometry, and a rejected submission writes nothing.
C27_RejectedSubmissionsWriteNothing ==
    [][/\ \A i \in Handlers :
            /\ (i \notin DOMAIN requests /\ i \in DOMAIN requests') =>
                  LET request == requests'[i].request
                      response == requests'[i].response
                      known == LevelExists(request.level_id)
                      same == known /\ request.sequence = Levels[request.level_id]
                      count == Len(request.coords) = 3 * Len(request.sequence)
                      whole == \A index \in 1..Len(request.coords) :
                                   Len(request.coords[index]) = 3
                      finite == \A index \in 1..Len(request.coords) :
                                    \A k \in 1..Len(request.coords[index]) :
                                        IsFinite(request.coords[index][k])
                  IN /\ ~known => response.status_code = 404
                                     /\ response.code = "level_not_found"
                     /\ (known /\ ~same) => response.status_code = 400
                     /\ (same /\ (~count \/ ~finite)) =>
                           response.status_code = 400 /\ response.code = "invalid_payload"
                     /\ (same /\ count /\ whole /\ finite
                           /\ ValidateGeometry(request.sequence, Triples(request.coords)) # <<>>)
                          => response.status_code = 400 /\ response.code = "invalid_geometry"
                     /\ response.status_code # 201 =>
                           requests'[i].pc = "done" /\ store' = store
            /\ (i \in DOMAIN requests /\ requests[i].response.status_code # 201) =>
                  requests'[i] = requests[i]
       /\ store'.files # store.files =>
             \E i \in DOMAIN requests :
                 /\ requests[i].response.status_code = 201
                 /\ requests[i].pc = "append"
                 /\ store'.files =
                       Put(store.files, requests[i].request.level_id,
                           Append(ReadEntries(store.files, requests[i].request.level_id),
                                  requests[i].entry))]_vars

\* One submission rejected for its geometry and one stored, the file of the
\* level holding the stored one alone
C27_Witness ==
    /\ \E i \in DOMAIN requests :
          /\ requests[i].pc = "done"
          /\ requests[i].response.code = "invalid_geometry"
          /\ requests[i].request.level_id = "level_0001"
    /\ \E i \in Handlers : Accepted(i) /\ requests[i].request.level_id = "level_0001"
    /\ Len(ReadEntries(store.files, "level_0001")) = 1

\* C28: concurrent persist_submission calls for one level are serialized by
\* one lock per level id: no entry is lost, each call returns as total the
\* number of entries stored once its own entry is appended (concurrent calls
\* return distinct totals, the first submission to a level returns rank 1 and
\* total 1), and the returned rank is the place of the submitted entry in the
\* leaderboard order, between 1 and total.
C28_SerializedTotalAndRankOfSubmittedEntry ==
    /\ DOMAIN store.locks \subseteq DOMAIN Levels
    /\ \A i \in Handlers :
          Accepted(i) =>
             LET file == ReadEntries(store.files, requests[i].request.level_id)
                 response == requests[i].response
             IN /\ response.entries \in 1..Len(file)
                /\ file[response.entries] = requests[i].entry
                /\ response.rank \in 1..response.entries
                /\ response.entries = 1 => response.rank = 1
                /\ SortEntries(SubSeq(file, 1, response.entries))[response.rank]
                      = requests[i].entry
                /\ \A j \in Handlers \ {i} :
                      (Accepted(j) /\ requests[j].request.level_id = requests[i].request.level_id)
                         => requests[j].response.entries # response.entries

\* The set local_rescore recomputes: the affected residues and the residues
\* the grid finds within 8.0 of any atom of theirs
InvalidationSet(s, affected_res_ids) ==
    affected_res_ids
      \cup NearbyResidues(s.grid, MovedPoints(s, affected_res_ids), Radius)

\* C29: local_rescore(state, affected) recomputes exactly the residues in
\* affected united with nearby_residues(all current atom positions of the
\* affected residues, 8.0): every cache entry outside that set keeps its
\* terms, total and version, incremental_passes goes up by exactly 1, and
\* full_passes is unchanged when the cache was not empty before the call.
C29_LocalRescoreRecomputesInvalidationSet ==
    [][last'.op = "local_rescore" =>
          LET recomputed == InvalidationSet(state, last'.affected)
          IN /\ \A rid \in recomputed :
                   /\ rid \in DOMAIN Cache'
                   /\ Cache'[rid] =
                         CacheEntry(state, rid,
                                    IF rid \in DOMAIN Cache
                                    THEN Cache[rid].version + 1 ELSE 1)
             /\ \A rid \in (DOMAIN Cache) \ recomputed :
                   /\ rid \in DOMAIN Cache'
                   /\ Cache'[rid] = Cache[rid]
             /\ state'.stats.incremental_passes = state.stats.incremental_passes + 1
             /\ Cache # EmptyDict =>
                   /\ state'.stats.full_passes = state.stats.full_passes
                   /\ state'.stats.term_eval_calls = BumpAll(state, recomputed)
                   /\ DOMAIN Cache' = (DOMAIN Cache) \cup recomputed]_vars

\* local_rescore ran on a filled cache and recomputed the affected residue
\* and a neighbour of it, leaving a third residue's entry at version 1
C29_Witness ==
    /\ last.op = "local_rescore"
    /\ state.stats.full_passes = 1
    /\ last.affected # {}
    /\ last.todo # last.affected
    /\ \E rid \in ResidueIds \ last.todo : Cache[rid].version = 1
    /\ \A rid \in last.todo : Cache[rid].version > 1

----------------------------------------------------------------------------
(* Torsion moves that rotate nothing *)

\* The residues with the atom called name taken out of residue res_id
WithoutAtom(residues, res_id, name) ==
    [i \in 1..Len(residues) |->
        IF residues[i].id # res_id THEN residues[i]
        ELSE [residues[i] EXCEPT
                 !.atoms = SelectSeq(@, LAMBDA atom : atom.id[2] # name)]]

\* Three residues whose C lies off the line from N to CA
Bent ==
    [sequence |-> <<"A", "G", "S">>,
     coords |-> <<<<0, 0, 0>>, <<1, 0, 0>>, <<1, 1, 0>>,
                  <<1, 3, 0>>, <<2, 3, 0>>, <<2, 4, 0>>,
                  <<2, 6, 0>>, <<3, 6, 0>>, <<3, 7, 0>>>>]

\* The States get_state hands out, among them States that set_state put
\* there with a backbone atom missing from one of three residues
TorsionStates ==
    ApiStates
    \cup {FromResidues(WithoutAtom(BuildResidues(st.sequence, st.coords), res_id, name),
                       SCORE_WEIGHTS) :
             st \in {x \in Structures : Len(x.sequence) = 3},
             res_id \in {0, 1}, name \in {"N", "CA", "C"}}
    \cup {BuildState(Bent.sequence, Bent.coords)}

InitTorsion ==
    /\ state \in TorsionStates
    /\ result = NoResult
    /\ ops = 0
    /\ last = NoOp
    /\ protocol = "fresh"
    /\ pending = {}
    /\ full_calls = 0
    /\ call = NoCall
    /\ nudge = NoNudge
    /\ requests = NoRequests
    /\ store = NoStore

TorsionDiff(res_idx, delta) ==
    JObj([res_idx |-> JNum(res_idx), move |-> JObj([type |-> Torsion, delta |-> delta])])

\* The diffs of the requests and further torsion moves, by number
TorsionPayloads ==
    DiffPayloads
    \o << TorsionDiff(1, JObj([phi |-> JNum(90)])),
          TorsionDiff(2, JObj([phi |-> JNum(-90)])),
          TorsionDiff(0, JObj([psi |-> JNum(90)])),
          TorsionDiff(1, JObj([psi |-> JNum(180)])),
          TorsionDiff(0, JObj([psi |-> JNum(180)])),
          TorsionDiff(1, JObj([phi |-> JNum(90), psi |-> JNum(90)])),
          TorsionDiff(1, JObj([phi |-> JNum(180), psi |-> JNum(0)])) >>

TorsionRequest == \E i \in DOMAIN TorsionPayloads : ApiScore(TorsionPayloads[i])

NextTorsion == TorsionRequest

SpecTorsion == InitTorsion /\ [][NextTorsion]_vars

\* The angle of a torsion diff called name: JSON null when the diff has none
TorsionAngle(diff, name) ==
    LET move == IF diff.kind = "object" THEN Field(diff, "move") ELSE JNull
        type == IF move.kind = "object" THEN Field(move, "type") ELSE JNull
        delta == IF move.kind = "object" THEN Field(move, "delta") ELSE JNull
    IN IF type.kind = "string" /\ Join(Lower(type.value)) = "torsion"
          /\ delta.kind = "object"
       THEN Field(delta, name) ELSE JNull

\* diff is a torsion move on a residue of s, and each angle it gives is zero,
\* or turns about an axis one of whose anchor atoms the residue lacks, or is
\* a psi of the last residue
TorsionRotatesNothing(s, diff) ==
    LET res_idx == IF diff.kind = "object" THEN PyInt(Field(diff, "res_idx"))
                   ELSE PyInt(JNull)
        phi == TorsionAngle(diff, "phi")
        psi == TorsionAngle(diff, "psi")
        names == DOMAIN CaptureCoords(s.residues[res_idx.value])
    IN /\ res_idx.ok
       /\ res_idx.value \in DOMAIN s.residues
       /\ phi.kind # "null" \/ psi.kind # "null"
       /\ phi.kind # "null" =>
             /\ PyFloat(phi).ok
             /\ PyFloat(phi).value = 0 \/ "N" \notin names \/ "CA" \notin names
       /\ psi.kind # "null" =>
             /\ PyFloat(psi).ok
             /\ \/ PyFloat(psi).value = 0
                \/ "CA" \notin names
                \/ "C" \notin names
                \/ \A rid \in DOMAIN s.residues : rid <= res_idx.value

----------------------------------------------------------------------------
(* What a torsion move turns *)

\* The residue index a diff names
TargetOf(diff) == PyInt(Field(diff, "res_idx")).value

\* The number an angle of a torsion diff denotes, 0 when the diff has none
TurnOf(diff, name) ==
    IF TorsionAngle(diff, name).kind = "null" THEN 0
    ELSE PyFloat(TorsionAngle(diff, name)).value

\* diff is answered as a torsion move on a residue of s
IsTorsion(s, diff) ==
    /\ diff.kind = "object"
    /\ "res_idx" \in DOMAIN diff.value
    /\ PyInt(Field(diff, "res_idx")).ok
    /\ TargetOf(diff) \in DOMAIN s.residues
    /\ TorsionAngle(diff, "phi").kind # "null" => PyFloat(TorsionAngle(diff, "phi")).ok
    /\ TorsionAngle(diff, "psi").kind # "null" => PyFloat(TorsionAngle(diff, "psi")).ok

\* A phi alone, not zero, on a residue that has its N and CA apart
IsPhiMove(s, diff) ==
    /\ IsTorsion(s, diff)
    /\ TurnOf(diff, "phi") # 0
    /\ TurnOf(diff, "psi") = 0
    /\ {"N", "CA"} \subseteq DOMAIN CaptureCoords(s.residues[TargetOf(diff)])
    /\ CaptureCoords(s.residues[TargetOf(diff)])["N"]
          # CaptureCoords(s.residues[TargetOf(diff)])["CA"]

\* A psi alone, not zero, on a residue that has its CA and C apart
IsPsiMove(s, diff) ==
    /\ IsTorsion(s, diff)
    /\ TurnOf(diff, "psi") # 0
    /\ TurnOf(diff, "phi") = 0
    /\ {"CA", "C"} \subseteq DOMAIN CaptureCoords(s.residues[TargetOf(diff)])
    /\ CaptureCoords(s.residues[TargetOf(diff)])["CA"]
          # CaptureCoords(s.residues[TargetOf(diff)])["C"]

\* The atoms of s2 are those of s1, each atom that turns(rid, name) names at
\* the place the turn about the axis from atom from to atom to of residue i
\* takes it to, every other atom where it was
TurnedBy(s1, s2, i, from, to, degrees, turns(_, _)) ==
    LET coords == CaptureCoords(s1.residues[i])
        unit == VecNormalise(VecSub(coords[to], coords[from]))
    IN /\ DOMAIN s2.residues = DOMAIN s1.residues
       /\ \A rid \in DOMAIN s1.residues :
             /\ Len(s2.residues[rid].atoms) = Len(s1.residues[rid].atoms)
             /\ \A k \in 1..Len(s1.residues[rid].atoms) :
                   LET atom == s1.residues[rid].atoms[k]
                   IN /\ s2.residues[rid].atoms[k].id = atom.id
                      /\ s2.residues[rid].atoms[k].xyz =
                            IF turns(rid, atom.id[2])
                            THEN RotatePointAroundAxis(atom.xyz, coords[from], unit, degrees)
                            ELSE atom.xyz

\* C31: a phi move with non-zero delta on residue i updates exactly the
\* residues with id >= i: every atom of every residue with id > i is rotated,
\* every atom of residue i except N and CA is rotated, N and CA of residue i
\* keep their positions, and no atom of a residue with id < i changes.
C31_PhiTurnsTargetAndDownstream ==
    [][(call'.fn = "api_score" /\ IsPhiMove(state, AnsweredDiff)) =>
          LET i == TargetOf(AnsweredDiff)
              others == {state.residues[i].atoms[k].id[2] :
                            k \in 1..Len(state.residues[i].atoms)} \ {"N", "CA"}
              turns(rid, name) == rid > i \/ (rid = i /\ name \notin {"N", "CA"})
          IN /\ call'.status = "ok"
             /\ DOMAIN call'.out.updates =
                   {rid \in ResidueIds : rid > i \/ (rid = i /\ others # {})}
             /\ i \in DOMAIN call'.out.updates =>
                   DOMAIN call'.out.updates[i] = others
             /\ TurnedBy(state, state', i, "N", "CA", TurnOf(AnsweredDiff, "phi"), turns)]_vars

\* A phi of a quarter turn on the middle one of three bent residues: its C
\* and the residue after it left the plane, the residue before it stayed
C31_Witness ==
    /\ call.fn = "api_score"
    /\ ops = 1
    /\ IsTorsion(state, call.args[1])
    /\ TargetOf(call.args[1]) = 1
    /\ TurnOf(call.args[1], "phi") = 90
    /\ TurnOf(call.args[1], "psi") = 0
    /\ state.residues[0] = BuildState(Bent.sequence, Bent.coords).residues[0]
    /\ CaptureCoords(state.residues[1])["CA"] = <<2, 3, 0>>
    /\ CaptureCoords(state.residues[1])["C"] = <<2, 3, 1>>
    /\ CaptureCoords(state.residues[2])["N"] = <<2, 3, 3>>

\* C32: a psi move with non-zero delta on residue i updates exactly the
\* residues with id > i (all of their atoms); no atom of residue i itself and
\* no atom of a residue with id < i changes.
C32_PsiTurnsDownstreamOnly ==
    [][(call'.fn = "api_score" /\ IsPsiMove(state, AnsweredDiff)) =>
          LET i == TargetOf(AnsweredDiff)
              turns(rid, name) == rid > i
          IN /\ call'.status = "ok"
             /\ DOMAIN call'.out.updates = {rid \in ResidueIds : rid > i}
             /\ \A rid \in DOMAIN call'.out.updates :
                   DOMAIN call'.out.updates[rid] =
                      {state.residues[rid].atoms[k].id[2] :
                          k \in 1..Len(state.residues[rid].atoms)}
             /\ TurnedBy(state, state', i, "CA", "C", TurnOf(AnsweredDiff, "psi"), turns)]_vars

\* A psi of a quarter turn on the first of three bent residues: the first
\* residue stayed, the two after it left the plane
C32_Witness ==
    /\ call.fn = "api_score"
    /\ ops = 1
    /\ IsTorsion(state, call.args[1])
    /\ TargetOf(call.args[1]) = 0
    /\ TurnOf(call.args[1], "psi") = 90
    /\ TurnOf(call.args[1], "phi") = 0
    /\ state.residues[0] = BuildState(Bent.sequence, Bent.coords).residues[0]
    /\ CaptureCoords(state.residues[1])["N"] = <<1, 3, 0>>
    /\ CaptureCoords(state.residues[1])["CA"] = <<1, 3, -1>>
    /\ CaptureCoords(state.residues[2])["C"][3] # 0

\* The residues a step moved an atom of
MovedResidues ==
    {rid \in ResidueIds : state'.residues[rid] # state.residues[rid]}

\* C33: for every move type (torsion, rotamer, raw atom displacement) every
\* residue whose coordinates the move changes is in the affected set handed
\* to local_rescore, and every coordinate update is applied through
\* update_residue_coords before local_rescore reads any position.
C33_MovedResiduesAreAffected ==
    [][(call'.fn = "api_score" /\ call'.out.branch = "local_rescore") =>
          LET moved == ApplyUpdates(InitialiseWeights(state), call'.out.updates)
          IN /\ MovedResidues \subseteq last'.affected
             /\ DOMAIN call'.out.updates \subseteq last'.affected
             /\ state'.residues = moved.residues
             /\ state'.grid = moved.grid
             /\ last'.affected \subseteq last'.todo
             /\ last'.todo = InvalidationSet(moved, last'.affected)
             /\ \A rid \in last'.todo :
                   Cache'[rid].terms
                      = ComputePerResidueTerms(state', rid, Neighbours(state', rid))]_vars

\* A phi on the first of three bent residues moved all three, and all three
\* were handed to local_rescore and rescored where they now are
C33_Witness ==
    /\ call.fn = "api_score"
    /\ call.out.branch = "local_rescore"
    /\ ops = 1
    /\ TurnOf(call.args[1], "phi") # 0
    /\ ResidueIds = {0, 1, 2}
    /\ DOMAIN call.out.updates = {0, 1, 2}
    /\ last.affected = {0, 1, 2}
    /\ CaptureCoords(state.residues[0])["C"] = <<1, 0, 1>>
    /\ state.stats.incremental_passes = 1
    /\ \A rid \in ResidueIds :
          Cache[rid].terms = ComputePerResidueTerms(state, rid, Neighbours(state, rid))

\* The cells of vox2res of grid g that hold residue rid
CellsIn(g, rid) == {c \in DOMAIN g.vox2res : rid \in g.vox2res[c]}

\* C34: after clear_residue(r), r is in no cell of vox2res, r has no res2vox
\* record, no cell of vox2res maps to an empty set, and the cells registered
\* for every other residue are unchanged; when r was not indexed the grid is
\* left exactly as it was and no error is raised.
C34_ClearResidueRemovesOnlyThatResidue ==
    [][last'.op = "clear_residue" =>
          LET r == last'.rid
              indexed == r \in DOMAIN state.grid.res2vox \/ CellsIn(state.grid, r) # {}
          IN /\ CellsIn(state'.grid, r) = {}
             /\ r \notin DOMAIN state'.grid.res2vox
             /\ \A c \in DOMAIN state'.grid.vox2res : state'.grid.vox2res[c] # {}
             /\ \A rid \in ((DOMAIN state.grid.res2vox) \cup (DOMAIN state'.grid.res2vox)) \ {r} :
                   /\ rid \in DOMAIN state.grid.res2vox
                   /\ rid \in DOMAIN state'.grid.res2vox
                   /\ state'.grid.res2vox[rid] = state.grid.res2vox[rid]
                   /\ CellsIn(state'.grid, rid) = CellsIn(state.grid, rid)
             /\ ~indexed => state'.grid = state.grid]_vars

\* A residue was cleared that held one cell alone and shared another: the
\* first cell is gone, the second is kept for the residue that shares it
C34_Witness ==
    /\ last.op = "clear_residue"
    /\ last.rid \in ResidueIds
    /\ last.rid \notin DOMAIN state.grid.res2vox
    /\ \E c \in AtomKeys(state.residues[last.rid]) : c \notin DOMAIN state.grid.vox2res
    /\ \E c \in AtomKeys(state.residues[last.rid]) :
          c \in DOMAIN state.grid.vox2res /\ state.grid.vox2res[c] # {}

\* Coordinates, atom index and grid of the State are those suggest_nudge
\* found when it was called
AsOnEntry(s) ==
    /\ s.residues = nudge.entry.residues
    /\ s.atom_index = nudge.entry.atom_index
    /\ s.grid = nudge.entry.grid

\* C35: when suggest_nudge returns, every atom coordinate, the atom index and
\* the neighbour grid equal their values before the call, and per_res_cache
\* (terms, totals and versions) equals the cache the baseline score_total
\* produced, however many candidates were applied and evaluated and whether
\* or not an evaluation failed.
C35_NudgeLeavesStateAsFound ==
    [][/\ (nudge.pc = "idle" /\ nudge'.pc = "candidates") =>
             nudge'.baseline_cache
                = ScoreTotal(InitialiseWeights(state)).state.per_res_cache
       /\ (nudge.pc = "idle" /\ last'.op = "suggest_nudge") =>
             /\ state'.residues = state.residues
             /\ state'.atom_index = state.atom_index
             /\ state'.grid = state.grid
             /\ state'.per_res_cache = state.per_res_cache
       /\ (nudge.pc # "idle" /\ last'.op = "suggest_nudge") =>
             /\ AsOnEntry(state')
             /\ state'.per_res_cache = nudge.baseline_cache]_vars

\* suggest_nudge returned after two candidates on a State of three residues
\* were applied and rescored
C35_Witness ==
    /\ last.op = "suggest_nudge"
    /\ nudge = NoNudge
    /\ Cardinality(ResidueIds) = 3
    /\ state.stats.incremental_passes = 2
    /\ TotalCalls(state) > full_calls
    /\ DOMAIN Cache = ResidueIds
    /\ \A rid \in ResidueIds : Cache[rid].version = 1

----------------------------------------------------------------------------
(* suggest_nudge without a delta-score model: the choice among the evaluated  *)
(* candidates.  Score decreases are counted in units of 5e-10, half of        *)
(* _TIE_EPS.                                                                   *)

TIE_EPS == 2

\* _generate_moves, in the order it yields them
GenerateMoves ==
    << [type |-> "phi", delta |-> -10], [type |-> "phi", delta |-> -5],
       [type |-> "phi", delta |-> 5], [type |-> "phi", delta |-> 10],
       [type |-> "psi", delta |-> -10], [type |-> "psi", delta |-> -5],
       [type |-> "psi", delta |-> 5], [type |-> "psi", delta |-> 10],
       [type |-> "rotamer", delta |-> 0], [type |-> "rotamer", delta |-> 1] >>

\* _move_abs_delta
MoveAbsDelta(move) == IF move.type = "rotamer" THEN 0 ELSE Abs(move.delta)

\* The place of a move type among the move types as strings
TypeRank == [phi |-> 1, psi |-> 2, rotamer |-> 3]

\* _candidate_key: (abs_delta, res_idx, move type, delta or rotamer id)
CandidateKey(candidate) ==
    <<candidate.abs_delta, candidate.res_idx, TypeRank[candidate.move.type],
      candidate.move.delta>>

\* Tuples of four numbers compared as Python compares tuples
KeyLess(a, b) ==
    \E k \in 1..4 : a[k] < b[k] /\ \A j \in 1..(k - 1) : a[j] = b[j]

\* A candidate of _generate_candidates
Candidate(res_idx, move) ==
    [res_idx |-> res_idx, move |-> move, abs_delta |-> MoveAbsDelta(move)]

\* The best so far: no candidate, or a candidate and its score decrease
NoBest == [candidate |-> <<>>, delta |-> 0]

\* Variant: a candidate within the tolerance never replaces the best.
ImprovementPreferredFirstWins(candidate, delta_score, best) ==
    \/ best.candidate = <<>>
    \/ delta_score > best.delta + TIE_EPS

\* _improvement_preferred
ImprovementPreferred(candidate, delta_score, best) ==
    IF best.candidate = <<>> THEN TRUE
    ELSE IF delta_score > best.delta + TIE_EPS THEN TRUE
    ELSE IF best.delta > delta_score + TIE_EPS THEN FALSE
    ELSE KeyLess(CandidateKey(candidate), CandidateKey(best.candidate[1]))

\* The loop of suggest_nudge over the candidates: evaluations[k] is what
\* _evaluate_candidate gave for candidates[k], a score decrease or a failure
RECURSIVE BestOf(_, _, _, _)
BestOf(candidates, evaluations, k, best) ==
    IF k > Len(candidates) THEN best
    ELSE IF evaluations[k].failed THEN BestOf(candidates, evaluations, k + 1, best)
    ELSE IF ImprovementPreferred(candidates[k], evaluations[k].delta, best)
    THEN BestOf(candidates, evaluations, k + 1,
                [candidate |-> <<candidates[k]>>, delta |-> evaluations[k].delta])
    ELSE BestOf(candidates, evaluations, k + 1, best)

\* What suggest_nudge returns for the candidates and their evaluations;
\* first_idx is the first residue of the State
SuggestNudgePayload(candidates, evaluations, first_idx) ==
    LET best == BestOf(candidates, evaluations, 1, NoBest)
    IN IF best.candidate = <<>>
       THEN [res_idx |-> first_idx, move |-> [type |-> "phi", delta |-> 0],
             expected_delta_score |-> 0, model_used |-> FALSE, note |-> ""]
       ELSE [res_idx |-> best.candidate[1].res_idx, move |-> best.candidate[1].move,
             expected_delta_score |-> best.delta, model_used |-> FALSE,
             note |-> IF best.delta <= 0 THEN "no positive improvement" ELSE ""]

\* Candidates evaluated in one call
MaxCandidates == 3

\* The moves of the candidates: a phi, a psi and a rotamer move
SampledMoves == {2, 8, 9}

\* Candidates of two centres as residue and number of the move
CandidateIds == {0, 1} \X SampledMoves

\* Lists _generate_candidates can return: centre after centre, the moves of a
\* centre in the order of _generate_moves
CandidateLists ==
    {ids \in SeqsUpTo(CandidateIds, MaxCandidates) :
        \A i, j \in 1..Len(ids) :
            i < j => /\ ids[i] # ids[j]
                     /\ ids[i][1] = ids[j][1] => ids[i][2] < ids[j][2]
                     /\ \A m \in (i + 1)..(j - 1) :
                           ids[i][1] = ids[j][1] => ids[m][1] = ids[i][1]}

\* Outcomes of _evaluate_candidate: it raised, or a score decrease
EvaluationOutcomes ==
    {[failed |-> TRUE, delta |-> 0]}
      \cup {[failed |-> FALSE, delta |-> d] : d \in {-1, 0, 1, 3}}

CallSuggestNudge(ids, evaluations) ==
    LET candidates == [k \in 1..Len(ids) |-> Candidate(ids[k][1], GenerateMoves[ids[k][2]])]
    IN /\ call.fn = "none"
       /\ call' = [fn |-> "suggest_nudge", args |-> <<candidates, evaluations>>,
                   status |-> "ok",
                   out |-> SuggestNudgePayload(candidates, evaluations, 0)]
       /\ UNCHANGED <<core, nudge, requests, store>>

Select ==
    \E ids \in CandidateLists :
        \E evaluations \in [1..Len(ids) -> EvaluationOutcomes] :
            CallSuggestNudge(ids, evaluations)

NextSelect == Select

SpecSelect == InitCalls /\ [][NextSelect]_vars

\* The candidates of the answered call whose evaluation gave a score decrease
Evaluated ==
    {k \in 1..Len(call.args[1]) : ~call.args[2][k].failed}

DecreaseOf(k) == call.args[2][k].delta

\* Candidate k was returned
Returned(k) ==
    /\ call.out.res_idx = call.args[1][k].res_idx
    /\ call.out.move = call.args[1][k].move
    /\ call.out.expected_delta_score = DecreaseOf(k)

\* No evaluated candidate has a larger decrease than k, or the same decrease
\* and a smaller key
LargestDecrease(k) ==
    \A j \in Evaluated \ {k} :
        \/ DecreaseOf(j) < DecreaseOf(k)
        \/ /\ DecreaseOf(j) = DecreaseOf(k)
           /\ KeyLess(CandidateKey(call.args[1][k]), CandidateKey(call.args[1][j]))

\* C36 as stated: without a delta-score model suggest_nudge returns the
\* evaluated candidate with the largest score decrease, ties going to the
\* smallest key; if any candidate lowers the score the returned
\* expected_delta_score is positive, and the note 'no positive improvement'
\* is there exactly when the best decrease is <= 0.
C36_ReturnsLargestDecrease ==
    (call.fn = "suggest_nudge" /\ Evaluated # {}) =>
        /\ \E k \in Evaluated : Returned(k) /\ LargestDecrease(k)
        /\ (\E k \in Evaluated : DecreaseOf(k) > 0) => call.out.expected_delta_score > 0
        /\ call.out.note = "no positive improvement"
              <=> \A k \in Evaluated : DecreaseOf(k) <= 0

\* The decreases of any two evaluated candidates are equal or more than the
\* tolerance apart
DecreasesApart ==
    \A j, k \in Evaluated :
        DecreaseOf(j) = DecreaseOf(k) \/ Abs(DecreaseOf(j) - DecreaseOf(k)) > TIE_EPS

\* C36 (amended): the returned candidate is an evaluated one, chosen in the
\* order of generation with decreases within 1e-9 of each other taken as
\* ties: it is the candidate of the largest decrease, ties going to the
\* smallest key, when the decreases of any two candidates are equal or more
\* than 1e-9 apart, and then expected_delta_score is positive if any
\* candidate lowers the score; the note is there exactly when the returned
\* expected_delta_score is <= 0.
C36_ReturnsLargestDecreaseUpToTolerance ==
    (call.fn = "suggest_nudge" /\ Evaluated # {}) =>
        /\ \E k \in Evaluated : Returned(k)
        /\ DecreasesApart =>
              /\ \E k \in Evaluated : Returned(k) /\ LargestDecrease(k)
              /\ (\E k \in Evaluated : DecreaseOf(k) > 0)
                    => call.out.expected_delta_score > 0
        /\ call.out.note = "no positive improvement"
              <=> call.out.expected_delta_score <= 0
        /\ \A k \in Evaluated :
              DecreaseOf(k) - call.out.expected_delta_score
                 <= TIE_EPS * (Cardinality(Evaluated) - 1)

\* Three candidates were evaluated, one failed to; of the two others, more
\* than the tolerance apart, the later one lowers the score most and is
\* returned
C36_Witness ==
    /\ call.fn = "suggest_nudge"
    /\ Len(call.args[1]) = 3
    /\ Cardinality(Evaluated) = 2
    /\ DecreasesApart
    /\ \E k \in Evaluated :
          /\ Returned(k)
          /\ DecreaseOf(k) > 0
          /\ \E j \in Evaluated : j < k /\ DecreaseOf(j) < DecreaseOf(k)
    /\ call.out.note = ""

----------------------------------------------------------------------------
(* score_total on a computed cache; the sums of a returned result *)

\* C37: when per_res_cache is non-empty score_total is read-only, it leaves
\* the coordinates, the grid, the cache entries with their versions and the
\* statistics counters, full_passes included, as they were; and a score_total
\* call that follows a score_total call returns the same score, terms and
\* per_residue values.
C37_ScoreTotalReadOnlyOnComputedCache ==
    [][(/\ ops' = ops + 1
        /\ last'.op = "score_total"
        /\ DOMAIN state.per_res_cache # {})
          => /\ state' = state
             /\ ~last'.full
             /\ last'.calls = 0
             /\ last.op = "score_total" =>
                   /\ result'.score = result.score
                   /\ result'.terms = result.terms
                   /\ result'.per_residue = result.per_residue]_vars

\* score_total has answered from a cache that a full pass computed and a
\* local_rescore then recomputed in part
C37_Witness ==
    /\ last.op = "score_total"
    /\ ~last.full
    /\ state.stats.full_passes = 1
    /\ state.stats.incremental_passes = 1
    /\ \E rid \in DOMAIN state.per_res_cache : state.per_res_cache[rid].version = 2
    /\ \E rid \in DOMAIN state.per_res_cache : state.per_res_cache[rid].version = 1
    /\ result.score # 0

\* score = sum of the per_residue totals = sum of the per-term totals
SumsAgree(res) ==
    /\ res.score
         = SumOver(DOMAIN res.per_residue,
                   [rid \in DOMAIN res.per_residue |-> res.per_residue[rid].total])
    /\ res.score = SumOver(DOMAIN res.terms, res.terms)

\* C38: in every result score_total or local_rescore has returned, and in the
\* one score_total would return now, score equals the sum of the per_residue
\* totals and the sum of the per-term totals, also after initialise_weights
\* has filled an empty weights map with entries already in the cache.
C38_ScoreIsSumOfResiduesAndOfTerms ==
    /\ last.op \in {"score_total", "local_rescore"} =>
          /\ result # NoResult
          /\ DOMAIN result.terms = TermNames
          /\ SumsAgree(result)
    /\ DOMAIN state.per_res_cache # {} =>
          /\ DOMAIN ScoreTotal(state).result.per_residue = DOMAIN state.per_res_cache
          /\ SumsAgree(ScoreTotal(state).result)

\* initialise_weights has just filled the empty weights map of a State whose
\* cache was computed before, with terms that do not all vanish
C38_Witness ==
    /\ last.op = "initialise_weights"
    /\ last.filled
    /\ state.weights = SCORE_WEIGHTS
    /\ DOMAIN state.per_res_cache # {}
    /\ result.score # 0
    /\ ScoreTotal(state).result.score # 0
    /\ Cardinality({term \in TermNames : ScoreTotal(state).result.terms[term] # 0}) > 1

----------------------------------------------------------------------------
(* A torsion move with a phi and a psi *)

\* The State with the updates of a diff applied, as api_score applies them
AfterMove(s, diff) == ApplyUpdates(s, DiffUpdates(s, diff).updates)

\* The torsion move on the residue of diff with one of its two angles alone
OnlyAngle(diff, name) ==
    TorsionDiff(TargetOf(diff), JObj([n \in {name} |-> TorsionAngle(diff, name)]))

\* A phi and a psi, neither zero, on a residue that has N, CA and C at three
\* places, with the psi turn after the phi turn a turn on the lattice too
IsPhiPsiMove(s, diff) ==
    /\ IsTorsion(s, diff)
    /\ TurnOf(diff, "phi") # 0
    /\ TurnOf(diff, "psi") # 0
    /\ {"N", "CA", "C"} \subseteq DOMAIN CaptureCoords(s.residues[TargetOf(diff)])
    /\ CaptureCoords(s.residues[TargetOf(diff)])["N"]
          # CaptureCoords(s.residues[TargetOf(diff)])["CA"]
    /\ CaptureCoords(s.residues[TargetOf(diff)])["CA"]
          # CaptureCoords(s.residues[TargetOf(diff)])["C"]
    /\ TorsionOnLattice(s, OnlyAngle(diff, "phi"))
    /\ TorsionOnLattice(AfterMove(s, OnlyAngle(diff, "phi")), OnlyAngle(diff, "psi"))

\* C39: a single torsion move carrying both a phi delta and a psi delta
\* leaves every residue with the same coordinates as the phi-only move
\* followed by the psi-only move on the same residue.
C39_PhiPsiMoveEqualsPhiThenPsi ==
    [][(call'.fn = "api_score" /\ IsPhiPsiMove(state, AnsweredDiff)) =>
          state'.residues
             = AfterMove(AfterMove(InitialiseWeights(state), OnlyAngle(AnsweredDiff, "phi")),
                         OnlyAngle(AnsweredDiff, "psi")).residues]_vars

\* What the move does: the residue it names is turned by the phi, the
\* residues after it by the psi about the axis the residue had before
PhiPsiMoveTurnsFromOriginal ==
    [][(call'.fn = "api_score" /\ IsPhiPsiMove(state, AnsweredDiff)) =>
          LET i == TargetOf(AnsweredDiff)
              s0 == InitialiseWeights(state)
              phi == AfterMove(s0, OnlyAngle(AnsweredDiff, "phi"))
              psi == AfterMove(s0, OnlyAngle(AnsweredDiff, "psi"))
          IN \A rid \in ResidueIds :
                state'.residues[rid]
                   = IF rid > i THEN psi.residues[rid] ELSE phi.residues[rid]]_vars

----------------------------------------------------------------------------
(* update_residue_coords called with any residue id *)

\* state.update_residue_coords(res_id, new_xyz): self.residues[res_id] raises
\* KeyError for an id the State does not have, before anything is touched
CallUpdateResidueCoords(res_id, new_xyz) ==
    IF res_id \in DOMAIN state.residues
    THEN /\ DoUpdateResidueCoords(res_id, new_xyz)
         /\ call' = [fn |-> "update_residue_coords", args |-> <<res_id, new_xyz>>,
                     status |-> "ok", out |-> 0]
         /\ UNCHANGED <<nudge, requests, store>>
    ELSE /\ ops < MaxOps
         /\ ops' = ops + 1
         /\ last' = [NoOp EXCEPT !.op = "update_residue_coords", !.rid = res_id,
                                 !.new_xyz = new_xyz]
         /\ call' = [fn |-> "update_residue_coords", args |-> <<res_id, new_xyz>>,
                     status |-> "KeyError", out |-> 0]
         /\ UNCHANGED <<state, result, protocol, pending, full_calls,
                        nudge, requests, store>>

UpdateAny ==
    \E res_id \in 0..MaxResidues : \E new_xyz \in MovePayloads :
        CallUpdateResidueCoords(res_id, new_xyz)

NextUpdate == UpdateAny \/ Score \/ Rescore

SpecUpdate == Init /\ [][NextUpdate]_vars

\* C40: update_residue_coords(r, new_xyz) changes only the positions of the
\* atoms of r whose names appear in new_xyz, with their atom_index entries,
\* and the grid registration of r: every other atom of r, every other residue
\* with its atom_index entries and its grid cells, per_res_cache and the
\* statistics counters are unchanged; a name in new_xyz that r does not have
\* adds nothing; and for an r the State does not have the call raises with
\* nothing changed.
C40_UpdateChangesOnlyNamedAtoms ==
    [][(ops' = ops + 1 /\ last'.op = "update_residue_coords") =>
          LET r == last'.rid
              new_xyz == last'.new_xyz
          IN IF r \in DOMAIN state.residues
             THEN /\ call'.status = "ok"
                  /\ DOMAIN state'.residues = DOMAIN state.residues
                  /\ \A rid \in (DOMAIN state.residues) \ {r} :
                        /\ state'.residues[rid] = state.residues[rid]
                        /\ rid \in DOMAIN state'.grid.res2vox
                              <=> rid \in DOMAIN state.grid.res2vox
                        /\ rid \in DOMAIN state.grid.res2vox =>
                              state'.grid.res2vox[rid] = state.grid.res2vox[rid]
                        /\ CellsIn(state'.grid, rid) = CellsIn(state.grid, rid)
                  /\ state'.residues[r].id = state.residues[r].id
                  /\ state'.residues[r].name = state.residues[r].name
                  /\ Len(state'.residues[r].atoms) = Len(state.residues[r].atoms)
                  /\ \A k \in 1..Len(state.residues[r].atoms) :
                        LET atom == state.residues[r].atoms[k]
                        IN /\ state'.residues[r].atoms[k].id = atom.id
                           /\ state'.residues[r].atoms[k].xyz =
                                 IF atom.id[2] \in DOMAIN new_xyz
                                 THEN new_xyz[atom.id[2]] ELSE atom.xyz
                  /\ DOMAIN state'.atom_index = DOMAIN state.atom_index
                  /\ \A aid \in DOMAIN state.atom_index :
                        state'.atom_index[aid] =
                           IF aid[1] = r /\ aid[2] \in DOMAIN new_xyz
                           THEN new_xyz[aid[2]] ELSE state.atom_index[aid]
                  /\ state'.per_res_cache = state.per_res_cache
                  /\ state'.stats = state.stats
                  /\ state'.weights = state.weights
             ELSE /\ call'.status = "KeyError"
                  /\ state' = state]_vars

\* A scored State of several residues had the CA of one residue moved by an
\* update that also names an O the residue does not have: the CA is at the
\* new place in a cell the residue was not in, N and C where they were
C40_Witness ==
    /\ last.op = "update_residue_coords"
    /\ call.fn = "update_residue_coords"
    /\ call.status = "ok"
    /\ DOMAIN last.new_xyz = {"CA", "O"}
    /\ Cardinality(ResidueIds) > 1
    /\ DOMAIN state.per_res_cache = ResidueIds
    /\ state.stats.full_passes = 1
    /\ \A atom \in AllAtoms(last.rid) :
          /\ atom.id[2] # "O"
          /\ atom.id[2] = "CA" => atom.xyz = <<8, 0, 0>>
          /\ atom.id[2] = "N" => atom.xyz # <<8, 0, 0>>
    /\ \E atom \in AllAtoms(last.rid) : atom.id[2] = "N"
    /\ <<2, 0, 0>> \in state.grid.res2vox[last.rid]

====
